---- MODULE Spec2Model ----
(***************************************************************************)
(* DDRecorderV2: the per-room supervisor (ddrecorder/runner.py), the       *)
(* failure-marker protocol (ddrecorder/utils.py), the session directory    *)
(* layout (ddrecorder/paths.py) and the retention sweep                    *)
(* (ddrecorder/cleanup.py).                                                *)
(*                                                                         *)
(* Two specifications share the file-system model:                         *)
(*   Spec       one RoomRunner thread, its controller's stop() and a       *)
(*              manual upload run from the command line;                   *)
(*   SweepSpec  the session directory tree under the retention sweep.      *)
(***************************************************************************)
EXTENDS Integers, Sequences, FiniteSets, TLC

VARIABLES
    fs,          \* the directory tree: path -> Absent or the entry's mtime
    reason,      \* marker path -> the reason text written into the marker
    now,         \* wall clock, seconds
    lastOp,      \* "cleanup" right after a retention sweep, else "none"
    lastArg,     \* retention_days of that sweep
    pre,         \* the directory tree as that sweep found it
    pc,          \* position of the RoomRunner thread in run()
    state,       \* RoomRunner.state
    state_since, \* RoomRunner.state_since
    stop_event,  \* RoomRunner._stop_event
    is_live,     \* room.is_live, the snapshot of the last refresh
    session,     \* number of sessions this runner has started
    cfg,         \* the room's configuration
    danmu,       \* the chat-capture task of the session
    uploads,     \* the upload attempts of the session: [at, ok]
    upload_result, \* what _upload_with_retry returned for the session
    processor_open, \* the RecordingProcessor's log file is open
    manual_runs, \* number of manual uploads run from the command line
    \* RecordingProcessor (ProcSpec)
    fragment_sizes, \* st_size of the *.flv fragments of records_dir, sorted
    keep_raw_record, \* recorder_cfg.keep_raw_record
    subtitles,   \* a chat log that renders, or a rendered .ass, is on disk
    run_pc,      \* position in RecordingProcessor.run
    attempt,     \* the loop variable of run()
    ts_files,    \* the list _transmux_fragments returned in this attempt
    attempt_log, \* one entry per finished attempt: [ts, concat]
    transmux_cmds, \* fragments the transmux command was run on
    concat_cmds, \* number of concat commands run
    run_result,  \* what run() returned
    merged,      \* what the merged-artifact path holds
    nosub,       \* what the .nosub.mp4 path holds
    split_pc,    \* position in RecordingProcessor.split
    split_interval, \* the argument of split()
    duration,    \* the duration the probe reports, seconds
    probe,       \* the duration probe: "none", "ok" or "failed"
    extracts,    \* the extraction commands run: [index, start, name, ok]
    outputs,     \* the list split() builds and returns
    parts,       \* part name -> the content of the part file
    \* jsonl_to_ass (AssSpec)
    jsonl,       \* the lines of the chat log
    style,       \* DanmuAssConfig: row_count, duration
    ass_result,  \* what jsonl_to_ass returned
    ass_entries, \* the Dialogue lines of the .ass file, in file order
    \* LiveRecorder.record (RecSpec)
    rec_pc,      \* position in LiveRecorder.record
    room_live,   \* room.is_live as the recorder reads it
    rec_fragments, \* the local list fragments
    rec_started, \* fragments started: calls of _download
    rec_fetches, \* calls of room.fetch_stream_urls
    rec_log,     \* one entry per iteration
    rec_result,  \* what record() returned
    rec_end_at,  \* end_at of record(): the clock reading of the cap, or NoCap
    \* the threads of RunnerController (ChatSpec)
    controller_stopped, \* RunnerController.stop() was called
    runner_pc,   \* room -> position of its RoomRunner thread
    runner_stop, \* room -> RoomRunner._stop_event
    room_is_live, \* room -> the room is live
    runner_session, \* room -> number of sessions its runner has started
    danmu_pc,    \* chat task -> position of the DanmuRecorder thread
    danmu_stop,  \* chat task -> DanmuRecorder.stop_event
    header_lock, \* the holder of _BILIBILI_HEADER_LOCK
    \* the session slugs of one room (SlugSpec)
    slug_pc,     \* position in RoomRunner.run
    slug_clock,  \* the wall clock, in readings of 1/TicksPerSecond s
    session_log, \* one entry per RecordingPaths the runner constructed
    \* DanmuRecorder._handle_payload (FilterSpec)
    chat_seen,   \* the decoded messages, in arrival order
    chat_lines,  \* the lines of the chat log, in file order
    \* BiliUploader._upload_file_with_retry (RetrySpec)
    up_pc,       \* position in _upload_file_with_retry
    max_retries, \* the parameter max_retries
    up_attempt,  \* the loop variable attempt
    last_error,  \* the local last_error
    up_calls,    \* what each call of client.upload_file ended with
    up_waits,    \* the arguments of time.sleep, in order
    up_result,   \* what the function returned or raised
    \* BiliUploader.upload_record (UploadSpec)
    ur_pc,       \* position in upload_record
    ur_enabled,  \* record_cfg.upload_record
    ur_splits,   \* the argument splits: path and size of each part
    ur_todo,     \* the rest of sorted(splits)
    ur_uploaded, \* the local counter uploaded
    ur_calls,    \* the calls of the client, in order
    ur_result    \* what upload_record returned or raised

supVars == <<pc, state, state_since, stop_event, is_live,
             session, cfg, danmu, uploads, upload_result, processor_open>>
envVars == <<manual_runs>>
procVars == <<fragment_sizes, keep_raw_record, subtitles, run_pc, attempt,
              ts_files, attempt_log, transmux_cmds, concat_cmds, run_result,
              merged, nosub, split_pc, split_interval, duration, probe,
              extracts, outputs, parts>>
assVars == <<jsonl, style, ass_result, ass_entries>>
recVars == <<rec_pc, room_live, rec_fragments, rec_started, rec_fetches,
             rec_log, rec_result, rec_end_at>>
chatVars == <<controller_stopped, runner_pc, runner_stop, room_is_live,
              runner_session, danmu_pc, danmu_stop, header_lock>>
slugVars == <<slug_pc, slug_clock, session_log>>
filterVars == <<chat_seen, chat_lines>>
retryVars == <<up_pc, max_retries, up_attempt, last_error, up_calls,
               up_waits, up_result>>
uploadVars == <<ur_pc, ur_enabled, ur_splits, ur_todo, ur_uploaded, ur_calls,
                ur_result>>
unitVars == <<slugVars, filterVars, retryVars, uploadVars>>
compVars == <<procVars, assVars, recVars, chatVars, unitVars>>
fsVars == <<fs, reason, now>>
sweepVars == <<lastOp, lastArg, pre>>
vars == <<fs, reason, now, lastOp, lastArg, pre, pc, state, state_since,
          stop_event, is_live, session, cfg, danmu,
          uploads, upload_result, processor_open, manual_runs,
          procVars, assVars, recVars, chatVars, unitVars>>

(***************************************************************************)
(* Bounds                                                                  *)
(***************************************************************************)
MaxSessions == 2
\* the session's files are written during the first seconds of SweepSpec
LastWriteTime == 1
\* manual uploads run from the command line while the runner works
MaxManualUploads == 1
\* fragments in the records directory when run() is called
MaxFragments == 2
\* lines of the chat log
MaxLines == 3
\* passes of the capture loop before the room goes offline
MaxIterations == 3
\* clock readings per wall-clock second
TicksPerSecond == 2
\* characters of a chat message
MaxTextLen == 2
\* chat messages received
MaxMessages == 2
\* the largest max_retries an upload of a part is called with
MaxRetries == 3
\* split parts handed to upload_record
MaxParts == 3
\* the longest duration cap of a capture, in seconds
MaxDuration == 1

(***************************************************************************)
(* Program constants                                                       *)
(***************************************************************************)
DANMU_RETENTION_DAYS == 30
DefaultRetentionDays == 7
retry_delay == 3600
SecondsPerDay == 86400
UPLOAD_FAILED_MARK == ".upload_failed"
MinFragmentBytes == 1048576
ProcessAttempts == 3
\* config.py:210  the default of check_interval, in seconds
check_interval == 60
\* uploader.py:94-96  wait_time = (attempt + 1) * 5
RetryWaitStep == 5
\* uploader.py:127  parts below 1_048_576 bytes are not uploaded
MinPartBytes == 1048576
\* recorder.py:45  retry_wait = max(5, check_interval), at least
MinRetryWait == 5

(***************************************************************************)
(* Session slugs and the path layout of RecordingPaths                     *)
(***************************************************************************)
SlugNames == <<"s1", "s2", "s3", "s4">>
Slugs == {SlugNames[i] : i \in 1..MaxSessions}
SweepSlugs == {SlugNames[1]}

records_dir(s) == <<"records", s>>
merged_dir == <<"merged">>
outputs_dir(s) == <<"outputs", s>>
splits_dir(s) == <<"splits", s>>
merge_conf_dir == <<"merge_confs">>
merge_conf_path(s) == <<"merge_confs", s>>
merged_file(s) == <<"merged", s>>
danmu_dir(s) == <<"danmu", s>>
danmu_json_path(s) == <<"danmu", s, "danmu.jsonl">>
fragment_path(s) == <<"records", s, "frag.flv">>
split_part(s) == <<"splits", s, "part.mp4">>
log_dir == <<"log">>
clean_log == <<"log", "clean.log">>
\* a directory and a file nested below a session's splits directory
nested_dir(s) == <<"splits", s, "sub">>
nested_file(s) == <<"splits", s, "sub", "deep.mp4">>

MarkerPath(d) == Append(d, UPLOAD_FAILED_MARK)

TargetDirs ==
    {<<"danmu">>, <<"merge_confs">>, <<"merged">>, <<"outputs">>,
     <<"records">>, <<"splits">>, log_dir}
SessionDirs(s) == {records_dir(s), outputs_dir(s), splits_dir(s), danmu_dir(s)}
MarkableDirs == {splits_dir(s) : s \in Slugs}
DirPaths ==
    TargetDirs \cup UNION {SessionDirs(s) \cup {nested_dir(s)} : s \in Slugs}
MarkerPaths == {MarkerPath(d) : d \in MarkableDirs}
DataFiles ==
    UNION {{fragment_path(s), split_part(s), merged_file(s),
            merge_conf_path(s), danmu_json_path(s), nested_file(s)} : s \in Slugs}
FilePaths == DataFiles \cup MarkerPaths \cup {clean_log}
Paths == DirPaths \cup FilePaths

Absent == -1
Parent(p) == SubSeq(p, 1, Len(p) - 1)
Name(p) == p[Len(p)]
ChildrenOf == [p \in DirPaths |-> {q \in Paths : Len(q) = Len(p) + 1 /\ Parent(q) = p}]
Children(p) == ChildrenOf[p]
IsUnder(p, d) == Len(p) > Len(d) /\ SubSeq(p, 1, Len(d)) = d

Exists(f, p) == p \in Paths /\ f[p] # Absent

\* Adding or removing an entry changes the mtime of its directory.  The
\* sweep targets are never removed and their mtime is never read, so they
\* keep the time of their creation.
TracksMtime(d) == d \in Paths /\ d \notin TargetDirs

\* a new entry changes its directory's mtime; rewriting a file does not
CreateEntry(f, p, t) ==
    [q \in Paths |->
        IF q = p THEN t
        ELSE IF q = Parent(p) /\ f[p] = Absent /\ TracksMtime(q) THEN t
        ELSE f[q]]

RemoveEntry(f, p, t) ==
    [q \in Paths |->
        IF q = p THEN Absent
        ELSE IF q = Parent(p) /\ TracksMtime(q) THEN t
        ELSE f[q]]

RECURSIVE MkdirP(_, _, _)
\* Path.mkdir(parents=True, exist_ok=True)
MkdirP(f, d, t) ==
    IF Len(d) = 0 \/ Exists(f, d) THEN f
    ELSE CreateEntry(MkdirP(f, Parent(d), t), d, t)

RECURSIVE MkdirAll(_, _, _)
MkdirAll(f, ds, t) ==
    IF Len(ds) = 0 THEN f
    ELSE MkdirAll(MkdirP(f, Head(ds), t), Tail(ds), t)

\* opening a file for writing in an existing directory
WriteFile(f, p, t) == CreateEntry(f, p, t)

(***************************************************************************)
(* The components checked on their own, before they are called             *)
(***************************************************************************)
\* processor.py:47-78  a RecordingProcessor on which run() was not called
ProcessorConstructed ==
    /\ run_pc = "idle"
    /\ attempt = 0
    /\ ts_files = <<>>
    /\ attempt_log = <<>>
    /\ transmux_cmds = {}
    /\ concat_cmds = 0
    /\ run_result = "pending"
    /\ merged = "absent"
    /\ nosub = "absent"
    /\ split_pc = "idle"
    /\ split_interval = 0
    /\ duration = 0
    /\ probe = "none"
    /\ extracts = <<>>
    /\ outputs = <<>>
    /\ parts = <<>>

NoRecordings ==
    /\ fragment_sizes = <<>>
    /\ keep_raw_record = FALSE
    /\ subtitles = FALSE

\* danmaku_ass.py:10-15  jsonl_to_ass was not called
NoChatLog ==
    /\ jsonl = <<>>
    /\ style = [row_count |-> 12, duration |-> 6]
    /\ ass_result = "pending"
    /\ ass_entries = <<>>

\* recorder.py:25-36  a LiveRecorder on which record() was not called
\* recorder.py:42  end_at = None
NoCap == -1

RecorderConstructed ==
    /\ rec_end_at = NoCap
    /\ rec_pc = "idle"
    /\ room_live = FALSE
    /\ rec_fragments = <<>>
    /\ rec_started = 0
    /\ rec_fetches = 0
    /\ rec_log = <<>>
    /\ rec_result = "pending"

NoSessionsStarted ==
    /\ slug_pc = "idle"
    /\ slug_clock = 0
    /\ session_log = <<>>

NoMessages ==
    /\ chat_seen = <<>>
    /\ chat_lines = <<>>

NoUploadCall ==
    /\ up_pc = "idle"
    /\ max_retries = 0
    /\ up_attempt = 0
    /\ last_error = "None"
    /\ up_calls = <<>>
    /\ up_waits = <<>>
    /\ up_result = "pending"

NoUploadRecord ==
    /\ ur_pc = "idle"
    /\ ur_enabled = FALSE
    /\ ur_splits = <<>>
    /\ ur_todo = <<>>
    /\ ur_uploaded = 0
    /\ ur_calls = <<>>
    /\ ur_result = "pending"

UnitsIdle == NoSessionsStarted /\ NoMessages /\ NoUploadCall /\ NoUploadRecord

\* the rooms of the configuration whose threads are followed
Rooms == {"room1", "room2"}

\* the chat task of the n-th session of room r
Tasks == Rooms \X (1..MaxSessions)
NoTask == <<"none", 0>>

\* runner.py:270-278  RunnerController.__init__: one RoomRunner per room,
\* none started, no DanmuRecorder constructed
RunnersConstructed ==
    /\ controller_stopped = FALSE
    /\ runner_pc = [r \in Rooms |-> "loop"]
    /\ runner_stop = [r \in Rooms |-> FALSE]
    /\ room_is_live = [r \in Rooms |-> FALSE]
    /\ runner_session = [r \in Rooms |-> 0]
    /\ danmu_pc = [t \in Tasks |-> "unborn"]
    /\ danmu_stop = [t \in Tasks |-> FALSE]
    /\ header_lock = NoTask


(***************************************************************************)
(* utils.py: the failure marker                                            *)
(***************************************************************************)
has_upload_failed_marker(f, d) == Exists(f, MarkerPath(d))

mark_upload_failed_fs(f, d, t) == WriteFile(MkdirP(f, d, t), MarkerPath(d), t)

\* the reason of an earlier mark is kept
mark_upload_failed_keeps_reason(txt, d, r) ==
    IF txt[MarkerPath(d)] # "" THEN txt ELSE [txt EXCEPT ![MarkerPath(d)] = r]

mark_upload_failed_text(txt, d, r) == [txt EXCEPT ![MarkerPath(d)] = r]

\* the marker is left where it is
clear_upload_failed_noop(f, d, t) == f

clear_upload_failed_fs(f, d, t) ==
    IF Exists(f, MarkerPath(d)) THEN RemoveEntry(f, MarkerPath(d), t) ELSE f

clear_upload_failed_text(f, txt, d) ==
    IF Exists(f, MarkerPath(d)) THEN [txt EXCEPT ![MarkerPath(d)] = ""] ELSE txt

(***************************************************************************)
(* paths.py: RecordingPaths.ensure_session_dirs                            *)
(***************************************************************************)
ensure_session_dirs(f, s, t) ==
    MkdirAll(f, <<records_dir(s), outputs_dir(s), splits_dir(s),
                  merged_dir, merge_conf_dir, danmu_dir(s)>>, t)

(***************************************************************************)
(* cleanup.py: the retention sweep                                         *)
(***************************************************************************)
Max(a, b) == IF a >= b THEN a ELSE b

_build_targets(default_retention) ==
    << <<(<<"danmu">>), Max(default_retention, DANMU_RETENTION_DAYS)>>,
       <<(<<"merge_confs">>), default_retention>>,
       <<(<<"merged">>), default_retention>>,
       <<(<<"outputs">>), default_retention>>,
       <<(<<"records">>), default_retention>>,
       <<(<<"splits">>), default_retention>>,
       <<log_dir, default_retention>> >>

Threshold(t, keep_days) == t - keep_days * SecondsPerDay

\* the comparison with the boundary included
IsExpiredInclusive(mtime, threshold) == mtime <= threshold

\* cleanup.py:87  file_path.stat().st_mtime < threshold
IsExpired(mtime, threshold) == mtime < threshold

IsEmptyDir(f, d) == \A c \in Children(d) : f[c] = Absent

\* cleanup.py:82-92  the files of one walked directory
PurgeFiles(f, root, threshold, t) ==
    LET doomed == {c \in Children(root) \cap FilePaths :
                      /\ f[c] # Absent
                      /\ Name(c) # UPLOAD_FAILED_MARK
                      /\ IsExpired(f[c], threshold)}
    IN  [q \in Paths |->
            IF q \in doomed THEN Absent
            ELSE IF q = root /\ doomed # {} /\ TracksMtime(q) THEN t
            ELSE f[q]]

\* cleanup.py:93-104  the subdirectories of one walked directory
PurgeDirs(f, root, t) ==
    LET doomed == {c \in Children(root) \cap DirPaths :
                      /\ f[c] # Absent
                      /\ ~has_upload_failed_marker(f, c)
                      /\ IsEmptyDir(f, c)}
    IN  [q \in Paths |->
            IF q \in doomed THEN Absent
            ELSE IF q = root /\ doomed # {} /\ TracksMtime(q) THEN t
            ELSE f[q]]

\* the walk loop without the test for the marker
PurgeRootIgnoringMarker(f, root, threshold, t) ==
    PurgeDirs(PurgeFiles(f, root, threshold, t), root, t)

\* cleanup.py:78-104  the body of the walk loop for one directory
PurgeRoot(f, root, threshold, t) ==
    IF has_upload_failed_marker(f, root) THEN f
    ELSE PurgeDirs(PurgeFiles(f, root, threshold, t), root, t)

RECURSIVE PurgeTree(_, _, _, _)
RECURSIVE PurgeEach(_, _, _, _)
\* os.walk(target, topdown=False): every subdirectory before its parent
PurgeTree(f, root, threshold, t) ==
    LET subdirs == {c \in Children(root) \cap DirPaths : f[c] # Absent}
    IN  PurgeRoot(PurgeEach(f, subdirs, threshold, t), root, threshold, t)

PurgeEach(f, ds, threshold, t) ==
    IF ds = {} THEN f
    ELSE LET d == CHOOSE x \in ds : TRUE
         IN  PurgeEach(PurgeTree(f, d, threshold, t), ds \ {d}, threshold, t)

_purge_path(f, target, threshold, t) == PurgeTree(f, target, threshold, t)

RECURSIVE SweepTargets(_, _, _)
\* cleanup.py:32-51
SweepTargets(f, targets, t) ==
    IF Len(targets) = 0 THEN f
    ELSE LET target == Head(targets)[1]
             keep_days == Head(targets)[2]
             g == IF ~Exists(f, target) THEN f
                  ELSE _purge_path(f, target, Threshold(t, keep_days), t)
         IN  SweepTargets(g, Tail(targets), t)

\* cleanup.py:17-55; the run summary clean.log is opened before the walk
cleanup_directories(f, retention_days, t) ==
    LET logged == WriteFile(MkdirP(f, log_dir, t), clean_log, t)
    IN  SweepTargets(logged, _build_targets(retention_days), t)

(***************************************************************************)
(* SweepSpec: one session's directories are filled by the stages of the    *)
(* pipeline, marked and unmarked, aged and swept.                          *)
(***************************************************************************)
EmptyFs == [p \in Paths |-> Absent]
NoReasons == [p \in MarkerPaths |-> ""]
RetentionChoices == {DefaultRetentionDays, DANMU_RETENTION_DAYS + 1}
TimePoints ==
    {0, 1}
    \cup {DefaultRetentionDays * SecondsPerDay + 1,
          DANMU_RETENTION_DAYS * SecondsPerDay + 1}

\* runner.py:23-37  RoomRunner.__init__, for a room whose configuration
\* is c
RunnerConstructed(c) ==
    /\ pc = "loop"
    /\ state = "IDLE"
    /\ state_since = 0
    /\ stop_event = FALSE
    /\ is_live = FALSE
    /\ session = 0
    /\ cfg = c
    /\ danmu = "none"
    /\ uploads = <<>>
    /\ upload_result = "none"
    /\ processor_open = FALSE

DefaultRoomConfig ==
    [enable_danmu |-> FALSE, upload_record |-> FALSE, keep_record_after_upload |-> TRUE]

SweepInit ==
    /\ fs = EmptyFs
    /\ reason = NoReasons
    /\ now = 0
    /\ lastOp = "none"
    /\ lastArg = 0
    /\ pre = EmptyFs
    /\ manual_runs = 0
    /\ ProcessorConstructed /\ NoRecordings
    /\ NoChatLog
    /\ RecorderConstructed
    /\ RunnersConstructed
    /\ UnitsIdle
    /\ RunnerConstructed(DefaultRoomConfig)

NotASweep ==
    /\ lastOp' = "none" /\ lastArg' = 0 /\ pre' = EmptyFs
    /\ UNCHANGED supVars
    /\ UNCHANGED envVars
    /\ UNCHANGED compVars

\* recorder.py:39  record() creates the session directories
SwEnsureSessionDirs(s) ==
    /\ now <= LastWriteTime
    /\ ~Exists(fs, records_dir(s))
    /\ fs' = ensure_session_dirs(fs, s, now)
    /\ UNCHANGED <<reason, now>>
    /\ NotASweep

\* recorder.py:50-64  a fragment is written into the records directory
SwRecordFragment(s) ==
    /\ now <= LastWriteTime
    /\ Exists(fs, records_dir(s))
    /\ ~Exists(fs, fragment_path(s))
    /\ fs' = WriteFile(fs, fragment_path(s), now)
    /\ UNCHANGED <<reason, now>>
    /\ NotASweep

\* danmurecorder.py:98-102  the chat log is opened in the danmu directory
SwOpenDanmuLog(s) ==
    /\ now <= LastWriteTime
    /\ ~Exists(fs, danmu_json_path(s))
    /\ fs' = WriteFile(MkdirP(fs, danmu_dir(s), now), danmu_json_path(s), now)
    /\ UNCHANGED <<reason, now>>
    /\ NotASweep

\* processor.py:80-101  run() writes the concat manifest and the merged file
SwProcess(s) ==
    /\ now <= LastWriteTime
    /\ Exists(fs, fragment_path(s))
    /\ ~Exists(fs, merged_file(s))
    /\ fs' = WriteFile(WriteFile(MkdirAll(fs, <<merge_conf_dir, merged_dir>>, now),
                                 merge_conf_path(s), now),
                       merged_file(s), now)
    /\ UNCHANGED <<reason, now>>
    /\ NotASweep

\* processor.py:103-148  split() writes a part into the splits directory
SwSplit(s) ==
    /\ now <= LastWriteTime
    /\ Exists(fs, merged_file(s))
    /\ ~Exists(fs, split_part(s))
    /\ fs' = WriteFile(MkdirP(fs, splits_dir(s), now), split_part(s), now)
    /\ UNCHANGED <<reason, now>>
    /\ NotASweep

\* tests/test_cleanup.py:23-26  touch(path, mtime)
SwTouch(p, mtime) ==
    /\ now <= LastWriteTime
    /\ ~Exists(fs, p)
    /\ mtime <= now
    /\ fs' = [WriteFile(MkdirP(fs, Parent(p), now), p, now) EXCEPT ![p] = mtime]
    /\ UNCHANGED <<reason, now>>
    /\ NotASweep

\* runner.py:243 / cli.py:548  the splits directory is marked
SwMarkUploadFailed(d, r) ==
    /\ Exists(fs, Append(d, "part.mp4"))
    /\ ~has_upload_failed_marker(fs, d)
    /\ fs' = mark_upload_failed_fs(fs, d, now)
    /\ reason' = mark_upload_failed_text(reason, d, r)
    /\ UNCHANGED now
    /\ NotASweep

\* cli.py:545  a later manual upload succeeds
SwClearUploadFailed(d) ==
    /\ has_upload_failed_marker(fs, d)
    /\ fs' = clear_upload_failed_fs(fs, d, now)
    /\ reason' = clear_upload_failed_text(fs, reason, d)
    /\ UNCHANGED now
    /\ NotASweep

SwTick ==
    /\ \E t \in TimePoints : t > now /\ now' = t
    /\ UNCHANGED <<fs, reason>>
    /\ NotASweep

\* cleanup.py:143-145  CleanupScheduler.run / cleanup.py:148-150 perform_cleanup
SwCleanup(retention_days) ==
    /\ fs' = cleanup_directories(fs, retention_days, now)
    /\ pre' = fs
    /\ lastOp' = "cleanup"
    /\ lastArg' = retention_days
    /\ UNCHANGED <<reason, now>>
    /\ UNCHANGED supVars
    /\ UNCHANGED envVars
    /\ UNCHANGED compVars

SweepNext ==
    \/ \E s \in SweepSlugs : SwEnsureSessionDirs(s)
    \/ \E s \in SweepSlugs : SwRecordFragment(s)
    \/ \E s \in SweepSlugs : SwOpenDanmuLog(s)
    \/ \E s \in SweepSlugs : SwProcess(s)
    \/ \E s \in SweepSlugs : SwSplit(s)
    \/ \E s \in SweepSlugs : SwTouch(nested_file(s), now)
    \/ \E s \in SweepSlugs : SwMarkUploadFailed(splits_dir(s), "upload_failed_after_retry")
    \/ \E s \in SweepSlugs : SwClearUploadFailed(splits_dir(s))
    \/ SwTick
    \/ \E r \in RetentionChoices : SwCleanup(r)

SweepSpec == SweepInit /\ [][SweepNext]_vars

(***************************************************************************)
(* runner.py: RoomRunner                                                   *)
(***************************************************************************)
RoomConfigs ==
    [enable_danmu : BOOLEAN, upload_record : BOOLEAN,
     keep_record_after_upload : BOOLEAN]

\* paths.py:8-9   the slug of the session in progress
slug == SlugNames[session]

\* the transition to RECORDING is lost
set_state_drops_recording(cur, s) == IF s = "RECORDING" THEN cur ELSE s

\* runner.py:42-47  RoomRunner.set_state
set_state(cur, s) == IF cur = s THEN cur ELSE s

\* the entry time is stamped on every call
SetStateAtAlwaysStamps(s, t) ==
    /\ state' = set_state(state, s)
    /\ state_since' = t

SetStateAt(s, t) ==
    /\ state' = set_state(state, s)
    /\ state_since' = IF state' = state THEN state_since ELSE t

SetState(s) == SetStateAt(s, now)

KeepState == UNCHANGED <<state, state_since>>

\* the test of the live flag inverted
RoomIsLiveInverted == ~is_live

\* live/base.py:48-50  LiveRoom.is_live
RoomIsLive == is_live

\* the sleep returns at once
sleep_returns_at_once(t, seconds) == t

\* runner.py:230  time.sleep(retry_delay)
sleep(t, seconds) == t + seconds

\* the outcome of the upload stage is always reported as IDLE
FinalStateAlwaysIdle(upload_success) == "IDLE"

\* runner.py:166-168
FinalState(upload_success) == IF upload_success THEN "IDLE" ELSE "ERROR"

\* runner.py:246-255  RoomRunner._cleanup_splits
_cleanup_splits(f, s, t) ==
    LET items == {c \in Children(splits_dir(s)) \cap FilePaths : f[c] # Absent}
        g == [q \in Paths |->
                 IF q \in items THEN Absent
                 ELSE IF q = splits_dir(s) /\ items # {} THEN t
                 ELSE f[q]]
    IN  IF Exists(g, splits_dir(s)) /\ IsEmptyDir(g, splits_dir(s))
        THEN RemoveEntry(g, splits_dir(s), t)
        ELSE g

UploadOutcomes == {"ok", "none", "raised", "init_failed"}

\* runner.py:172-203  RoomRunner._do_upload: its result ...
_do_upload(outcome) == outcome = "ok"

\* ... and what it leaves on disk
_do_upload_fs(f, outcome, cleanup_on_success, s, t) ==
    IF outcome = "ok" /\ cleanup_on_success THEN _cleanup_splits(f, s, t) ELSE f

Init ==
    /\ fs = EmptyFs
    /\ reason = NoReasons
    /\ now = 0
    /\ lastOp = "none"
    /\ lastArg = 0
    /\ pre = EmptyFs
    /\ manual_runs = 0
    /\ ProcessorConstructed /\ NoRecordings
    /\ NoChatLog
    /\ RecorderConstructed
    /\ RunnersConstructed
    /\ UnitsIdle
    /\ \E c \in RoomConfigs : RunnerConstructed(c)

\* runner.py:53  while not self._stop_event.is_set(); the locals of the
\* previous cycle (danmu_recorder, the upload attempts) are gone
LoopHead ==
    /\ pc = "loop"
    /\ pc' = IF stop_event THEN "done" ELSE "refresh"
    /\ danmu' = "none"
    /\ uploads' = <<>>
    /\ upload_result' = "none"
    /\ UNCHANGED <<state, state_since, stop_event, is_live, session, cfg,
                   processor_open>>
    /\ UNCHANGED fsVars
    /\ UNCHANGED sweepVars
    /\ UNCHANGED envVars
    /\ UNCHANGED compVars

\* runner.py:54-65  self.room.refresh()
Refresh ==
    /\ pc = "refresh"
    /\ \E outcome \in {"raised", "live", "not_live"} :
          /\ outcome = "live" => session < MaxSessions
          /\ IF outcome = "raised"
             THEN /\ pc' = "sleep_refresh_failed"
                  /\ UNCHANGED is_live
             ELSE /\ is_live' = (outcome = "live")
                  /\ pc' = "check_live"
    /\ UNCHANGED <<state, state_since, stop_event, session, cfg,
                   danmu, uploads, upload_result, processor_open>>
    /\ UNCHANGED fsVars
    /\ UNCHANGED sweepVars
    /\ UNCHANGED envVars
    /\ UNCHANGED compVars

\* runner.py:67-70  the room is not live
NotLive ==
    /\ pc = "check_live"
    /\ ~RoomIsLive
    /\ SetState("IDLE")
    /\ pc' = "sleep_not_live"
    /\ UNCHANGED <<stop_event, is_live, session, cfg, danmu, uploads,
                   upload_result, processor_open>>
    /\ UNCHANGED fsVars
    /\ UNCHANGED sweepVars
    /\ UNCHANGED envVars
    /\ UNCHANGED compVars

\* runner.py:49-50, 64, 69  sleep_with_stop returns, by timeout or by stop()
SleepWithStop ==
    /\ pc \in {"sleep_refresh_failed", "sleep_not_live"}
    /\ pc' = "loop"
    /\ UNCHANGED <<state, state_since, stop_event, is_live,
                   session, cfg, danmu, uploads, upload_result, processor_open>>
    /\ UNCHANGED fsVars
    /\ UNCHANGED sweepVars
    /\ UNCHANGED envVars
    /\ UNCHANGED compVars

\* the chat capture is started whatever the configuration says
DanmuStartOutcomesIgnoringConfig(enable_danmu) ==
    {"started", "failed_early", "failed_late"}

\* runner.py:80-102  DanmuRecorder(...) and start() run only with
\* enable_danmu; the constructor fails before or after it opened the chat
\* log, or start() fails, and the except clause drops the task
DanmuStartOutcomes(enable_danmu) ==
    IF enable_danmu THEN {"started", "failed_early", "failed_late"}
    ELSE {"disabled"}

\* runner.py:72-108  the room is live: session paths, chat capture, RECORDING
StartSession ==
    /\ pc = "check_live"
    /\ RoomIsLive
    /\ session < MaxSessions
    /\ session' = session + 1
    /\ uploads' = <<>>
    /\ upload_result' = "none"
    /\ LET s == SlugNames[session + 1]
       IN  \E outcome \in DanmuStartOutcomes(cfg.enable_danmu) :
              \* danmurecorder.py:98-102  the constructor opens the chat log
              /\ fs' = IF outcome \in {"disabled", "failed_early"} THEN fs
                       ELSE WriteFile(MkdirP(fs, danmu_dir(s), now),
                                      danmu_json_path(s), now)
              /\ danmu' = IF outcome = "started" THEN "running" ELSE "none"
    /\ SetState("RECORDING")
    /\ pc' = "record"
    /\ UNCHANGED <<stop_event, is_live, cfg, processor_open>>
    /\ UNCHANGED <<reason, now>>
    /\ UNCHANGED sweepVars
    /\ UNCHANGED envVars
    /\ UNCHANGED compVars

\* the pipeline is built whatever record() returned
AfterRecordAlwaysProcess(outcome) == "procinit"

\* runner.py:113-120  without a result 'continue', else RecordingProcessor
AfterRecord(outcome) == IF outcome = "none" THEN "loop" ELSE "procinit"

\* runner.py:109-118  recorder.record(), then the chat capture is stopped
Record ==
    /\ pc = "record"
    /\ \E outcome \in {"result", "none", "raised_early", "raised_late"} :
          /\ fs' = IF outcome = "raised_early" THEN fs
                   ELSE IF outcome = "result"
                        THEN WriteFile(ensure_session_dirs(fs, slug, now),
                                       fragment_path(slug), now)
                        ELSE ensure_session_dirs(fs, slug, now)
          /\ IF outcome \in {"raised_early", "raised_late"}
             THEN \* the exception leaves run(): the thread ends
                  /\ pc' = "crashed"
                  /\ KeepState
                  /\ UNCHANGED <<danmu, is_live>>
             ELSE /\ danmu' = IF danmu = "running" THEN "stopped" ELSE danmu
                  /\ pc' = AfterRecord(outcome)
                  /\ IF outcome = "none"
                     THEN /\ SetState("ERROR")
                          /\ is_live' \in BOOLEAN
                     ELSE /\ KeepState
                          /\ is_live' = FALSE
    /\ UNCHANGED <<stop_event, session, cfg, uploads, upload_result,
                   processor_open>>
    /\ UNCHANGED <<reason, now>>
    /\ UNCHANGED sweepVars
    /\ UNCHANGED envVars
    /\ UNCHANGED compVars

\* runner.py:120-127  RecordingProcessor(...), then PROCESSING
ProcessorInit ==
    /\ pc = "procinit"
    /\ \E outcome \in {"ok", "raised"} :
          IF outcome = "raised"
          THEN /\ pc' = "crashed"
               /\ KeepState
               /\ UNCHANGED processor_open
          ELSE /\ processor_open' = TRUE
               /\ SetState("PROCESSING")
               /\ pc' = "process"
    /\ UNCHANGED <<stop_event, is_live, session, cfg, danmu, uploads,
                   upload_result>>
    /\ UNCHANGED fsVars
    /\ UNCHANGED sweepVars
    /\ UNCHANGED envVars
    /\ UNCHANGED compVars

\* the merged artifact is split whatever the configuration says
AfterProcessAlwaysSplit(upload_record) == "split"

\* runner.py:136-145  without upload_record 'continue', else processor.split()
AfterProcess(upload_record) == IF upload_record THEN "split" ELSE "loop"

\* runner.py:128-143, 169-170  processor.run()
Process ==
    /\ pc = "process"
    /\ \E outcome \in {"result", "none", "raised"} :
          /\ fs' = IF outcome = "result"
                   THEN WriteFile(WriteFile(fs, merge_conf_path(slug), now),
                                  merged_file(slug), now)
                   ELSE fs
          /\ IF outcome = "raised"
             THEN /\ pc' = "crashed"
                  /\ KeepState
                  /\ processor_open' = FALSE
             ELSE IF outcome = "none"
             THEN /\ SetState("ERROR")
                  /\ pc' = "loop"
                  /\ processor_open' = FALSE
             ELSE /\ pc' = AfterProcess(cfg.upload_record)
                  /\ IF pc' = "loop"
                     THEN /\ SetState("IDLE")
                          /\ processor_open' = FALSE
                     ELSE /\ KeepState
                          /\ UNCHANGED processor_open
    /\ UNCHANGED <<stop_event, is_live, session, cfg, danmu, uploads,
                   upload_result>>
    /\ UNCHANGED <<reason, now>>
    /\ UNCHANGED sweepVars
    /\ UNCHANGED envVars
    /\ UNCHANGED compVars

\* runner.py:145-158, 214  processor.split(); with parts, UPLOADING
Split ==
    /\ pc = "split"
    /\ \E outcome \in {"parts", "empty", "raised"} :
          IF outcome = "parts"
          THEN /\ fs' = WriteFile(MkdirP(fs, splits_dir(slug), now),
                                  split_part(slug), now)
               /\ SetState("UPLOADING")
               /\ pc' = "upload1"
               /\ UNCHANGED processor_open
          ELSE /\ fs' = fs
               /\ SetState("ERROR")
               /\ pc' = "loop"
               /\ processor_open' = FALSE
    /\ UNCHANGED <<stop_event, is_live, session, cfg, danmu, uploads,
                   upload_result>>
    /\ UNCHANGED <<reason, now>>
    /\ UNCHANGED sweepVars
    /\ UNCHANGED envVars
    /\ UNCHANGED compVars

\* runner.py:219-230, 166-170  the first attempt
Upload1 ==
    /\ pc = "upload1"
    /\ \E outcome \in UploadOutcomes : \E clear_raises \in BOOLEAN :
          LET ok == _do_upload(outcome)
              uploaded == _do_upload_fs(fs, outcome, cfg.keep_record_after_upload,
                                        slug, now)
          IN  /\ uploads' = Append(uploads, [at |-> now, ok |-> ok])
              /\ IF ok /\ clear_raises
                 THEN /\ fs' = uploaded
                      /\ pc' = "crashed"
                      /\ KeepState
                      /\ processor_open' = FALSE
                      /\ UNCHANGED <<reason, upload_result>>
                 ELSE IF ok
                 THEN /\ fs' = clear_upload_failed_fs(uploaded, splits_dir(slug), now)
                      /\ reason' = clear_upload_failed_text(uploaded, reason,
                                                            splits_dir(slug))
                      /\ upload_result' = "ok"
                      /\ SetState(FinalState(TRUE))
                      /\ pc' = "loop"
                      /\ processor_open' = FALSE
                 ELSE /\ ~clear_raises
                      /\ fs' = uploaded
                      /\ SetState("IDLE")
                      /\ pc' = "retry_sleep"
                      /\ UNCHANGED <<reason, upload_result, processor_open>>
    /\ UNCHANGED <<stop_event, is_live, session, cfg, danmu>>
    /\ UNCHANGED now
    /\ UNCHANGED sweepVars
    /\ UNCHANGED envVars
    /\ UNCHANGED compVars

\* runner.py:230-234  time.sleep(retry_delay) returns; UPLOADING again
RetrySleep ==
    /\ pc = "retry_sleep"
    /\ now' = sleep(now, retry_delay)
    /\ SetStateAt("UPLOADING", now')
    /\ pc' = "upload2"
    /\ UNCHANGED <<stop_event, is_live, session, cfg, danmu, uploads,
                   upload_result, processor_open>>
    /\ UNCHANGED <<fs, reason>>
    /\ UNCHANGED sweepVars
    /\ UNCHANGED envVars
    /\ UNCHANGED compVars

\* runner.py:235-244, 166-170  the second attempt
Upload2 ==
    /\ pc = "upload2"
    /\ \E outcome \in UploadOutcomes : \E marker_raises \in BOOLEAN :
          LET ok == _do_upload(outcome)
              uploaded == _do_upload_fs(fs, outcome, cfg.keep_record_after_upload,
                                        slug, now)
          IN  /\ uploads' = Append(uploads, [at |-> now, ok |-> ok])
              /\ IF marker_raises
                 THEN \* clear_upload_failed or mark_upload_failed raises
                      /\ fs' = uploaded
                      /\ pc' = "crashed"
                      /\ KeepState
                      /\ processor_open' = FALSE
                      /\ UNCHANGED <<reason, upload_result>>
                 ELSE IF ok
                 THEN /\ fs' = clear_upload_failed_fs(uploaded, splits_dir(slug), now)
                      /\ reason' = clear_upload_failed_text(uploaded, reason,
                                                            splits_dir(slug))
                      /\ upload_result' = "ok"
                      /\ SetState(FinalState(TRUE))
                      /\ pc' = "loop"
                      /\ processor_open' = FALSE
                 ELSE /\ fs' = mark_upload_failed_fs(uploaded, splits_dir(slug), now)
                      /\ reason' = mark_upload_failed_text(reason, splits_dir(slug),
                                                           "upload_failed_after_retry")
                      /\ upload_result' = "failed"
                      /\ SetState(FinalState(FALSE))
                      /\ pc' = "loop"
                      /\ processor_open' = FALSE
    /\ UNCHANGED <<stop_event, is_live, session, cfg, danmu>>
    /\ UNCHANGED now
    /\ UNCHANGED sweepVars
    /\ UNCHANGED envVars
    /\ UNCHANGED compVars

\* runner.py:39-40, 289-292  RunnerController.stop() -> RoomRunner.stop()
Stop ==
    /\ ~stop_event
    /\ pc \notin {"done", "crashed"}
    /\ stop_event' = TRUE
    /\ UNCHANGED <<pc, state, state_since, is_live, session,
                   cfg, danmu, uploads, upload_result, processor_open>>
    /\ UNCHANGED fsVars
    /\ UNCHANGED sweepVars
    /\ UNCHANGED envVars
    /\ UNCHANGED compVars

\* cli.py:531-555  _manual_upload, run from the command line on the splits
\* directory of the runner's latest session
ManualUpload(s) ==
    /\ session > 0 /\ s = slug
    /\ manual_runs < MaxManualUploads
    /\ manual_runs' = manual_runs + 1
    /\ Exists(fs, split_part(s))
    \* an exception (cli.py:550-553) marks like an empty result, with the
    \* reason "manual_upload_exception"
    /\ \E outcome \in {"ok", "none"} :
          IF outcome = "ok"
          THEN /\ fs' = clear_upload_failed_fs(fs, splits_dir(s), now)
               /\ reason' = clear_upload_failed_text(fs, reason, splits_dir(s))
          ELSE /\ fs' = mark_upload_failed_fs(fs, splits_dir(s), now)
               /\ reason' = mark_upload_failed_text(reason, splits_dir(s),
                                                    "manual_upload_failed")
    /\ UNCHANGED now
    /\ UNCHANGED supVars
    /\ UNCHANGED sweepVars
    /\ UNCHANGED compVars

Next ==
    \/ LoopHead
    \/ Refresh
    \/ NotLive
    \/ SleepWithStop
    \/ StartSession
    \/ Record
    \/ ProcessorInit
    \/ Process
    \/ Split
    \/ Upload1
    \/ RetrySleep
    \/ Upload2
    \/ Stop
    \/ \E s \in Slugs : ManualUpload(s)

Spec == Init /\ [][Next]_vars

(***************************************************************************)
(* Properties of the retention sweep (SweepSpec)                           *)
(***************************************************************************)
Swept == lastOp = "cleanup"

\* retention of the location a path lies in, as the documentation states it:
\* chat logs are kept DANMU_RETENTION_DAYS at least, everything else
\* retention_days
LocationKeepDays(p, retention_days) ==
    IF p[1] = "danmu" /\ retention_days < DANMU_RETENTION_DAYS
    THEN DANMU_RETENTION_DAYS
    ELSE retention_days

LocationThreshold(p) == now - LocationKeepDays(p, lastArg) * SecondsPerDay

\* the files the stages of the pipeline leave in a session's subtree
SessionFiles(s) ==
    {fragment_path(s), merge_conf_path(s), merged_file(s), split_part(s),
     danmu_json_path(s)}

\* the modification time the sweep reads: the run summary is written by the
\* sweep itself before it walks the log directory
MtimeSeenBySweep(p) == IF p = clean_log THEN now ELSE pre[p]

\* C7: below a directory that contains the failure marker a sweep deletes
\* no file and no directory, at any nesting depth and whatever the age
C7_MarkedSubtreeUntouched ==
    Swept =>
        \A d \in DirPaths : has_upload_failed_marker(pre, d) =>
            \A p \in Paths : (IsUnder(p, d) /\ pre[p] # Absent) => fs[p] # Absent

\* C8 as claimed: while the marker is in a session's splits directory, a
\* sweep removes none of the session's raw fragments, concat manifest,
\* merged artifact, split parts or chat-capture files
C8_MarkedSessionKept ==
    Swept =>
        \A s \in Slugs : has_upload_failed_marker(pre, splits_dir(s)) =>
            \A p \in SessionFiles(s) : pre[p] # Absent => fs[p] # Absent

\* C8 amended: while the marker is in a session's splits directory, a sweep
\* removes neither that directory nor any file directly in it; any file of
\* the session that a sweep removes is older than its location's threshold
\* and lies in a directory that carries no marker
C8_MarkedSplitsKept ==
    Swept =>
        \A s \in Slugs :
            /\ has_upload_failed_marker(pre, splits_dir(s)) =>
                  /\ fs[splits_dir(s)] = pre[splits_dir(s)]
                  /\ \A p \in Children(splits_dir(s)) \cap FilePaths : fs[p] = pre[p]
            /\ \A p \in SessionFiles(s) :
                  (pre[p] # Absent /\ fs[p] = Absent) =>
                      /\ pre[p] < LocationThreshold(p)
                      /\ ~has_upload_failed_marker(pre, Parent(p))

\* a sweep found the splits directory marked with a part older than the
\* threshold and kept it, and removed the old raw fragment of that session
C8_Witness ==
    /\ Swept
    /\ \E s \in Slugs :
          /\ has_upload_failed_marker(pre, splits_dir(s))
          /\ pre[split_part(s)] # Absent
          /\ pre[split_part(s)] < LocationThreshold(split_part(s))
          /\ fs[split_part(s)] # Absent
          /\ pre[fragment_path(s)] # Absent
          /\ fs[fragment_path(s)] = Absent

\* C9: a file that is not in a marked directory is deleted by a sweep at
\* time now if and only if its mtime is strictly earlier than
\* now - retention of its location * 86400
C9_FileDeletedIffExpired ==
    Swept =>
        \A p \in DataFiles \cup {clean_log} :
            (pre[p] # Absent /\ ~has_upload_failed_marker(pre, Parent(p))) =>
                (fs[p] = Absent <=> MtimeSeenBySweep(p) < LocationThreshold(p))

\* one sweep deleted a file older than the threshold and kept a file whose
\* mtime equals the threshold
C9_Witness ==
    /\ Swept
    /\ \E p, q \in DataFiles :
          /\ pre[p] # Absent /\ pre[p] < LocationThreshold(p) /\ fs[p] = Absent
          /\ pre[q] # Absent /\ pre[q] = LocationThreshold(q) /\ fs[q] # Absent
          /\ ~has_upload_failed_marker(pre, Parent(p))
          /\ ~has_upload_failed_marker(pre, Parent(q))

\* C10: a sweep removes a subdirectory only if it is older than the
\* retention threshold; an empty directory younger than the threshold is
\* never removed
C10_DirRemovedOnlyIfOld ==
    Swept =>
        \A d \in DirPaths \ TargetDirs :
            (pre[d] # Absent /\ fs[d] = Absent) => pre[d] < LocationThreshold(d)

(***************************************************************************)
(* Properties of the supervisor (Spec)                                     *)
(***************************************************************************)
Succeeded(u) == \E i \in 1..Len(u) : u[i].ok
BothFailed(u) == Len(u) = 2 /\ ~u[1].ok /\ ~u[2].ok

\* _upload_with_retry returns in this step
UploadStageEnds == upload_result = "none" /\ upload_result' # "none"

\* a step of the RoomRunner thread
RunnerStep == pc' # pc

\* the cycle is past a refresh that reported is_live = false
InNotLiveCycle == ~is_live /\ pc \in {"check_live", "sleep_not_live"}

\* C1: in a cycle whose refresh reports is_live = false a supervisor in IDLE
\* stays in IDLE, no directory and no file of a session is created, and no
\* capture, chat capture, pipeline or upload is started
C1_NotLiveStaysIdle ==
    [][InNotLiveCycle =>
          /\ state = "IDLE" => state' = "IDLE"
          /\ \A p \in DirPaths \cup DataFiles : fs[p] = Absent => fs'[p] = Absent
          /\ session' = session
          /\ danmu' = "none"
          /\ uploads' = uploads
          /\ processor_open' = processor_open
          /\ pc' \in {"check_live", "sleep_not_live", "loop"}]_vars

\* the runner found the room not live, is IDLE and waits; nothing is on disk
C1_Witness ==
    /\ pc = "sleep_not_live"
    /\ ~is_live
    /\ state = "IDLE"
    /\ session = 0
    /\ fs = EmptyFs

\* C2: when the upload stage ends with a successful attempt the marker is
\* absent from the session's splits directory; when it ends after two failed
\* attempts the marker is there with a non-empty reason; the runner writes a
\* marker in no other step
C2_MarkerFollowsUpload ==
    [][/\ (UploadStageEnds /\ Succeeded(uploads')) =>
              ~has_upload_failed_marker(fs', splits_dir(slug))
       /\ (UploadStageEnds /\ BothFailed(uploads')) =>
              /\ has_upload_failed_marker(fs', splits_dir(slug))
              /\ reason'[MarkerPath(splits_dir(slug))] # ""
       /\ \A m \in MarkerPaths :
              (/\ RunnerStep
               /\ fs'[m] # Absent
               /\ (fs[m] = Absent \/ fs'[m] # fs[m] \/ reason'[m] # reason[m])) =>
                  /\ UploadStageEnds
                  /\ BothFailed(uploads')
                  /\ m = MarkerPath(splits_dir(slug))]_vars

\* both attempts failed and the marker with its reason is in the splits
\* directory
C2_Witness ==
    /\ upload_result = "failed"
    /\ BothFailed(uploads)
    /\ has_upload_failed_marker(fs, splits_dir(slug))
    /\ reason[MarkerPath(splits_dir(slug))] = "upload_failed_after_retry"

\* C3: at most two upload attempts per session; a second one only after the
\* first failed and not before the retry delay has elapsed
C3_AtMostOneDelayedRetry ==
    /\ Len(uploads) <= 2
    /\ Len(uploads) = 2 =>
          /\ ~uploads[1].ok
          /\ uploads[2].at >= uploads[1].at + retry_delay

\* the second attempt was made, and it succeeded
C3_Witness ==
    /\ Len(uploads) = 2
    /\ uploads[2].ok
    /\ pc = "loop"

\* C4: when the upload stage ends the state is IDLE after a successful
\* attempt and ERROR after two failed ones, and control is back at the head
\* of the loop, from where a runner that was not stopped refreshes the room
C4_FinalStateAndRestart ==
    [][/\ UploadStageEnds =>
              /\ Succeeded(uploads') => state' = "IDLE"
              /\ BothFailed(uploads') => state' = "ERROR"
              /\ pc' = "loop"
       /\ (pc = "loop" /\ RunnerStep /\ ~stop_event) => pc' = "refresh"]_vars

\* the stage ended after two failed attempts: ERROR, at the head of the loop
C4_Witness ==
    /\ pc = "loop"
    /\ upload_result = "failed"
    /\ BothFailed(uploads)
    /\ state = "ERROR"

\* C5: no exception ends the runner; its thread ends only after stop()
C5_OnlyStopEndsRunner ==
    /\ pc # "crashed"
    /\ pc = "done" => stop_event

States == {"IDLE", "RECORDING", "PROCESSING", "UPLOADING", "ERROR"}

ClaimedEdges ==
    {<<"IDLE", "RECORDING">>, <<"RECORDING", "PROCESSING">>,
     <<"PROCESSING", "UPLOADING">>, <<"PROCESSING", "IDLE">>,
     <<"UPLOADING", "IDLE">>, <<"ERROR", "IDLE">>}
    \cup {<<x, "ERROR">> : x \in States \ {"ERROR"}}

RECURSIVE SetToSortedSeq(_)
\* the members of a set of numbers in ascending order
SetToSortedSeq(S) ==
    IF S = {} THEN <<>>
    ELSE LET m == CHOOSE x \in S : \A y \in S : x <= y
         IN  <<m>> \o SetToSortedSeq(S \ {m})

\* sizes on either side of the threshold of processor.py:160
FragmentSizeChoices == {MinFragmentBytes - 1, MinFragmentBytes}

FragmentSets == UNION {[1..n -> FragmentSizeChoices] : n \in 0..MaxFragments}

\* the size test passes every fragment
IsTooSmallNever(size) == FALSE

\* processor.py:160  fragment.stat().st_size < 1_048_576
IsTooSmall(size) == size < MinFragmentBytes

\* processor.py:159-163  the fragments the transmux command is run on
TransmuxCandidates(sizes) == {i \in 1..Len(sizes) : ~IsTooSmall(sizes[i])}

\* one attempt more is made
AttemptsExhaustedLate(a) == a >= ProcessAttempts + 1

\* processor.py:82  for attempt in range(1, 4): this was the last one
AttemptsExhausted(a) == a >= ProcessAttempts

\* processor.py:84-91, 100-101  the attempt failed: continue, or return None
\* when the loop is exhausted
FailAttempt(entry) ==
    /\ attempt_log' = Append(attempt_log, entry)
    /\ IF AttemptsExhausted(attempt)
       THEN /\ run_pc' = "returned"
            /\ run_result' = "None"
            /\ attempt' = attempt
       ELSE /\ run_pc' = "transmux"
            /\ run_result' = run_result
            /\ attempt' = attempt + 1

SplitIdle == UNCHANGED <<split_pc, split_interval, duration, probe, extracts,
                         outputs, parts>>

OutsideProcessor ==
    /\ UNCHANGED fsVars
    /\ UNCHANGED sweepVars
    /\ UNCHANGED supVars
    /\ UNCHANGED envVars
    /\ UNCHANGED assVars
    /\ UNCHANGED recVars
    /\ UNCHANGED chatVars
    /\ UNCHANGED unitVars

\* the records directory of a session, the configuration and the chat log
\* the processor is constructed on
ProcInit ==
    /\ fs = EmptyFs
    /\ reason = NoReasons
    /\ now = 0
    /\ lastOp = "none"
    /\ lastArg = 0
    /\ pre = EmptyFs
    /\ manual_runs = 0
    /\ RunnerConstructed(DefaultRoomConfig)
    /\ ProcessorConstructed
    /\ fragment_sizes \in FragmentSets
    /\ keep_raw_record \in BOOLEAN
    /\ subtitles \in BOOLEAN
    /\ NoChatLog
    /\ RecorderConstructed
    /\ RunnersConstructed
    /\ UnitsIdle

\* processor.py:80-82  run() is called
RunStart ==
    /\ run_pc = "idle"
    /\ run_pc' = "transmux"
    /\ attempt' = 1
    /\ UNCHANGED <<fragment_sizes, keep_raw_record, subtitles, ts_files,
                   attempt_log, transmux_cmds, concat_cmds, run_result,
                   merged, nosub>>
    /\ SplitIdle
    /\ OutsideProcessor

\* processor.py:83-88, 150-169  _transmux_fragments: the command runs on
\* every fragment that is not too small and succeeds on some of them
Transmux ==
    /\ run_pc = "transmux"
    /\ LET candidates == TransmuxCandidates(fragment_sizes)
       IN  /\ transmux_cmds' = transmux_cmds \cup candidates
           /\ \E succeeded \in SUBSET candidates :
                 /\ ts_files' = SetToSortedSeq(succeeded)
                 /\ IF succeeded = {}
                    THEN FailAttempt([ts |-> 0, concat |-> "not run"])
                    ELSE /\ run_pc' = "concat"
                         /\ UNCHANGED <<attempt, attempt_log, run_result>>
    /\ UNCHANGED <<fragment_sizes, keep_raw_record, subtitles, concat_cmds,
                   merged, nosub>>
    /\ SplitIdle
    /\ OutsideProcessor

\* processor.py:89-91, 171-195  _concat: ffmpeg writes the merged file; a
\* failed command leaves the path as it was or with a partial file
Concat ==
    /\ run_pc = "concat"
    /\ concat_cmds' = concat_cmds + 1
    /\ \E ok \in BOOLEAN :
          IF ok
          THEN /\ merged' = "concat"
               /\ run_pc' = "subtitles"
               /\ attempt_log' = Append(attempt_log,
                                        [ts |-> Len(ts_files), concat |-> "ok"])
               /\ UNCHANGED <<attempt, run_result>>
          ELSE /\ merged' \in {merged, "partial"}
               /\ FailAttempt([ts |-> Len(ts_files), concat |-> "failed"])
    /\ UNCHANGED <<fragment_sizes, keep_raw_record, subtitles, ts_files,
                   transmux_cmds, nosub>>
    /\ SplitIdle
    /\ OutsideProcessor

SubtitleOutcomes ==
    {"no subtitles", "prepare failed", "encoded", "failed without output",
     "failed with partial output", "failed, restore failed"}

\* processor.py:266-375  _apply_subtitles: what the merged path and the
\* .nosub.mp4 path hold afterwards
_apply_subtitles(m, outcome) ==
    CASE outcome = "no subtitles" ->                      \* 269-273
             [merged |-> m, nosub |-> "absent"]
      [] outcome = "prepare failed" ->                    \* 275-281
             [merged |-> m, nosub |-> "absent"]
      [] outcome = "encoded" ->                           \* 365-367
             [merged |-> "subtitled", nosub |-> "absent"]
      [] outcome = "failed without output" ->             \* 368-373
             [merged |-> m, nosub |-> "absent"]
      [] outcome = "failed with partial output" ->        \* 372: exists()
             [merged |-> "partial", nosub |-> m]
      [] outcome = "failed, restore failed" ->            \* 374-375
             [merged |-> "absent", nosub |-> m]

\* processor.py:95-96, 197-210  the fragments left in the records directory:
\* _cleanup_fragments empties it unless keep_raw_record is set
fragments_left ==
    IF run_result = "ProcessResult" /\ ~keep_raw_record THEN <<>>
    ELSE fragment_sizes

\* processor.py:92-99  the attempt succeeded: _cleanup_ts, _apply_subtitles,
\* _cleanup_fragments, return ProcessResult
FinishRun ==
    /\ run_pc = "subtitles"
    /\ \E outcome \in SubtitleOutcomes :
          /\ (outcome = "no subtitles") = ~subtitles
          /\ LET after == _apply_subtitles(merged, outcome)
             IN  /\ merged' = after.merged
                 /\ nosub' = after.nosub
    /\ run_pc' = "returned"
    /\ run_result' = "ProcessResult"
    /\ UNCHANGED <<fragment_sizes, keep_raw_record, subtitles, attempt,
                   ts_files, attempt_log,
                   transmux_cmds, concat_cmds>>
    /\ SplitIdle
    /\ OutsideProcessor

(***************************************************************************)
(* processor.py: RecordingProcessor.split                                  *)
(***************************************************************************)
\* the session the processor works on
proc_slug == SlugNames[1]

RECURSIVE Digits(_)
\* the decimal digits of a natural number, most significant first
Digits(n) == IF n < 10 THEN <<n>> ELSE Digits(n \div 10) \o <<n % 10>>

RECURSIVE ZeroPad(_, _)
\* format spec 04: zeros in front up to a width of four, no truncation
ZeroPad(ds, width) == IF Len(ds) >= width THEN ds ELSE ZeroPad(<<0>> \o ds, width)

\* processor.py:116, 128  f"{slug}_{index:04}.mp4"
PartName(s, index) == <<s, ZeroPad(Digits(index), 4)>>

IntervalChoices == {-1, 0, 60, 90}
DurationChoices == {0, 59, 60, 119, 120}

\* the copy is cut short
copy2_truncated(content) == "partial"

\* processor.py:117  shutil.copy2(merged_file, target)
copy2(content) == content

\* processor.py:115  if split_interval <= 0
IsCopyInterval(interval) == interval <= 0

\* the number of parts rounded up
NumSplitsCeil(d, interval) == (d + interval - 1) \div interval

\* processor.py:125  int(duration // split_interval) + 1
NumSplits(d, interval) == (d \div interval) + 1

RunIdle == UNCHANGED <<fragment_sizes, keep_raw_record, subtitles, run_pc,
                       attempt, ts_files, attempt_log, transmux_cmds,
                       concat_cmds, run_result, merged, nosub>>

OutsideSplit ==
    /\ RunIdle
    /\ UNCHANGED <<reason, now>>
    /\ UNCHANGED sweepVars
    /\ UNCHANGED supVars
    /\ UNCHANGED envVars
    /\ UNCHANGED assVars
    /\ UNCHANGED recVars
    /\ UNCHANGED chatVars
    /\ UNCHANGED unitVars

\* processor.py:103-125  split(interval) up to its loop: the copy of the
\* merged file for interval <= 0, else the duration probe
SplitStart ==
    /\ run_pc = "returned" /\ run_result = "ProcessResult"
    /\ split_pc = "idle"
    /\ fs' = MkdirP(fs, splits_dir(proc_slug), now)
    /\ \E interval \in IntervalChoices, d \in DurationChoices :
          /\ split_interval' = interval
          /\ duration' = d
          /\ IF IsCopyInterval(interval)
             THEN /\ probe' = probe
                  /\ IF merged = "absent"
                     THEN \* shutil.copy2 raises FileNotFoundError
                          /\ split_pc' = "raised"
                          /\ UNCHANGED <<outputs, parts>>
                     ELSE /\ split_pc' = "returned"
                          /\ parts' = (PartName(proc_slug, 0) :> copy2(merged))
                          /\ outputs' = <<PartName(proc_slug, 0)>>
             ELSE /\ UNCHANGED parts
                  /\ \E ok \in BOOLEAN :
                        /\ ok => merged # "absent"
                        /\ IF ok
                           THEN /\ probe' = "ok"
                                /\ split_pc' = "extract"
                                /\ UNCHANGED outputs
                           ELSE /\ probe' = "failed"
                                /\ split_pc' = "returned"
                                /\ outputs' = <<>>
    /\ UNCHANGED extracts
    /\ OutsideSplit

\* processor.py:127-148  one pass of the loop over range(num_splits); after
\* the last one split() returns outputs
SplitExtract ==
    /\ split_pc = "extract"
    /\ LET index == Len(extracts)
           output == PartName(proc_slug, index)
       IN  /\ index < NumSplits(duration, split_interval)
           /\ \E ok \in BOOLEAN :
                 /\ extracts' = Append(extracts,
                       [index |-> index, start |-> index * split_interval,
                        name |-> output, ok |-> ok])
                 /\ outputs' = IF ok THEN Append(outputs, output) ELSE outputs
                 /\ parts' = IF ok THEN (output :> "part") @@ parts ELSE parts
           /\ split_pc' = IF index + 1 < NumSplits(duration, split_interval)
                          THEN "extract" ELSE "returned"
    /\ UNCHANGED <<split_interval, duration, probe, fs>>
    /\ OutsideSplit

ProcNext ==
    \/ RunStart
    \/ Transmux
    \/ Concat
    \/ FinishRun
    \/ SplitStart
    \/ SplitExtract

ProcSpec == ProcInit /\ [][ProcNext]_vars

(***************************************************************************)
(* Properties of RecordingProcessor (ProcSpec)                             *)
(***************************************************************************)
\* at least one fragment was transmuxed and the concat succeeded
AttemptSucceeded(e) == e.ts >= 1 /\ e.concat = "ok"

\* C11: run() makes at most 3 attempts; every attempt before the last one
\* made has failed; after an attempt that succeeded no other is started and
\* a ProcessResult is returned; None is returned iff 3 attempts were made
\* and all of them failed
C11_AtMostThreeAttempts ==
    /\ Len(attempt_log) <= 3
    /\ \A i \in 1..(Len(attempt_log) - 1) : ~AttemptSucceeded(attempt_log[i])
    /\ (\E i \in 1..Len(attempt_log) : AttemptSucceeded(attempt_log[i])) =>
          /\ run_pc \in {"subtitles", "returned"}
          /\ attempt = Len(attempt_log)
          /\ run_result # "None"
    /\ run_result = "ProcessResult" =>
          AttemptSucceeded(attempt_log[Len(attempt_log)])
    /\ run_pc = "returned" =>
          (run_result = "None" <=>
              /\ Len(attempt_log) = 3
              /\ \A i \in 1..3 : ~AttemptSucceeded(attempt_log[i]))

\* run() returned a ProcessResult from its third attempt
C11_Witness ==
    /\ run_pc = "returned"
    /\ run_result = "ProcessResult"
    /\ Len(attempt_log) = 3
    /\ attempt_log[1].concat = "failed"
    /\ attempt_log[2].concat = "not run"

AllFragmentsSmall == \A i \in 1..Len(fragment_sizes) : fragment_sizes[i] < 1048576

\* C12: when every fragment is smaller than 1,048,576 bytes run() never
\* runs the transmux command, never runs the concat command and returns
\* None
C12_SmallFragmentsNeverProcessed ==
    AllFragmentsSmall =>
        /\ transmux_cmds = {}
        /\ concat_cmds = 0
        /\ run_result # "ProcessResult"
        /\ run_pc = "returned" => run_result = "None"

\* run() returned None for two fragments one byte below the threshold
C12_Witness ==
    /\ Len(fragment_sizes) = 2
    /\ \A i \in 1..2 : fragment_sizes[i] = 1048575
    /\ run_pc = "returned"
    /\ run_result = "None"
    /\ Len(attempt_log) = 3

\* C13: after run() returned a ProcessResult the merged-artifact path holds
\* the subtitled encode or the complete concat output, never a partial file
\* and never nothing
C13_MergedArtifactIntact ==
    (run_pc = "returned" /\ run_result = "ProcessResult") =>
        merged \in {"concat", "subtitled"}

\* C14: split(interval) with interval <= 0 returns exactly the part
\* <slug>_0000, a copy of the merged artifact, and runs neither the probe
\* nor an extraction command
C14_CopyWhenIntervalNotPositive ==
    (split_pc = "returned" /\ split_interval <= 0) =>
        /\ outputs = << <<proc_slug, <<0, 0, 0, 0>> >> >>
        /\ DOMAIN parts = {outputs[1]}
        /\ parts[outputs[1]] = merged
        /\ probe = "none"
        /\ extracts = <<>>

\* split(0) returned the copy of a subtitled artifact
C14_Witness ==
    /\ split_pc = "returned"
    /\ split_interval = 0
    /\ merged = "subtitled"
    /\ Len(outputs) = 1

AllExtractionsSucceeded ==
    /\ probe = "ok"
    /\ \A i \in 1..Len(extracts) : extracts[i].ok

\* C15: split(interval) with interval > 0, every extraction succeeding,
\* returns ceil(D / interval) parts
C15_CeilParts ==
    (split_pc = "returned" /\ split_interval > 0 /\ AllExtractionsSucceeded) =>
        Len(outputs) = (duration + split_interval - 1) \div split_interval

FourDigits(n) == <<n \div 1000, (n \div 100) % 10, (n \div 10) % 10, n % 10>>

ExtractedNames ==
    LET good == SelectSeq(extracts, LAMBDA e : e.ok)
    IN  [k \in 1..Len(good) |-> good[k].name]

\* C16: split(interval) with interval > 0 attempts one extraction for each
\* index 0..floor(D/interval), part i starting at i * interval and named
\* with the 4-digit index; it returns the extracted parts in index order,
\* failed ones left out: floor(D/interval) + 1 parts when all succeed, 3 for
\* D = 120 and interval = 60; after a failed probe it returns the empty list
C16_FloorPlusOneParts ==
    (split_pc = "returned" /\ split_interval > 0) =>
        IF probe = "failed"
        THEN outputs = <<>> /\ extracts = <<>>
        ELSE /\ probe = "ok"
             /\ Len(extracts) = (duration \div split_interval) + 1
             /\ \A i \in 1..Len(extracts) :
                   /\ extracts[i].index = i - 1
                   /\ extracts[i].start = (i - 1) * split_interval
                   /\ extracts[i].name = <<proc_slug, FourDigits(i - 1)>>
             /\ outputs = ExtractedNames
             /\ AllExtractionsSucceeded =>
                   Len(outputs) = (duration \div split_interval) + 1
             /\ (AllExtractionsSucceeded /\ duration = 120 /\ split_interval = 60) =>
                   Len(outputs) = 3

\* D = 120, interval = 60: three parts; the second extraction of another
\* run may fail, here all succeeded
C16_Witness ==
    /\ split_pc = "returned"
    /\ duration = 120
    /\ split_interval = 60
    /\ AllExtractionsSucceeded
    /\ Len(outputs) = 3

(***************************************************************************)
(* danmaku_ass.py: jsonl_to_ass                                            *)
(***************************************************************************)
\* danmaku_ass.py:19  session_start in milliseconds
session_ms == 5000

Line(kind, type, text, time_kind, time) ==
    [kind |-> kind, type |-> type, text |-> text, time_kind |-> time_kind,
     time |-> time]

\* The lines a chat log is made of: a blank line, text that is no JSON, JSON
\* that is no object, and objects.  An object has a type, a text and a key
\* "time" that is missing, a string or a number of milliseconds.
LineChoices ==
    {Line("blank", "", "", "missing", 0),
     Line("malformed", "", "", "missing", 0),
     Line("not an object", "", "", "missing", 0),
     Line("object", "other", "a", "number", session_ms),
     Line("object", "danmaku", "", "number", session_ms),
     Line("object", "danmaku", " ", "number", session_ms),
     Line("object", "danmaku", "a", "missing", 0),
     Line("object", "danmaku", "a", "string", 0),
     Line("object", "danmaku", "a", "number", session_ms - 1000),
     Line("object", "danmaku", "a", "number", session_ms + 1000),
     Line("object", "danmaku", "b", "number", session_ms),
     Line("object", "danmaku", "c", "number", session_ms + 1000)}

ChatLogs == UNION {[1..n -> LineChoices] : n \in 0..MaxLines}

StyleChoices == [row_count : {0, 1, 2}, duration : {6}]

\* danmaku_ass.py:35  str.strip()
Strip(text) == IF text = " " THEN "" ELSE text

\* danmaku_ass.py:41-43  the offset in seconds, not below 0
Offset(timestamp) ==
    LET offset == (timestamp - session_ms) \div 1000
    IN  IF offset < 0 THEN 0 ELSE offset

\* danmaku_ass.py:30-32, 33  json.loads succeeds; payload.get raises
\* AttributeError on a value that is no object
Raises(l) == l.kind = "not an object"

\* danmaku_ass.py:26-40  the line is appended to records
Accepted(l) ==
    /\ l.kind = "object"
    /\ l.type = "danmaku"
    /\ Strip(l.text) # ""
    /\ l.time_kind = "number"

RECURSIVE ReadRecords(_, _)
\* danmaku_ass.py:23-44  the list records, in log order; the position of the
\* line in the log is kept with the record
ReadRecords(log, i) ==
    IF i > Len(log) THEN <<>>
    ELSE (IF Accepted(log[i])
          THEN <<[offset |-> Offset(log[i].time), text |-> Strip(log[i].text),
                  line |-> i]>>
          ELSE <<>>) \o ReadRecords(log, i + 1)

\* the record goes in front of the records with the same offset
InsertBeforeEqual(sorted, r) ==
    LET before == SelectSeq(sorted, LAMBDA x : x.offset < r.offset)
        after == SelectSeq(sorted, LAMBDA x : x.offset >= r.offset)
    IN  before \o <<r>> \o after

\* a record goes behind the records with a smaller or the same offset
Insert(sorted, r) ==
    LET before == SelectSeq(sorted, LAMBDA x : x.offset <= r.offset)
        after == SelectSeq(sorted, LAMBDA x : x.offset > r.offset)
    IN  before \o <<r>> \o after

RECURSIVE SortRecords(_)
\* danmaku_ass.py:49  records.sort(key=offset): a stable sort
SortRecords(rs) ==
    IF rs = <<>> THEN <<>>
    ELSE Insert(SortRecords(SubSeq(rs, 1, Len(rs) - 1)), rs[Len(rs)])

\* danmaku_ass.py:56  idx % max(style.row_count, 1)
Row(idx, row_count) == idx % Max(row_count, 1)

\* danmaku_ass.py:54-63  the Dialogue lines
Dialogues(rs, st) ==
    [k \in 1..Len(rs) |->
        [start |-> rs[k].offset,
         end |-> rs[k].offset + st.duration,
         row |-> Row(k - 1, st.row_count),
         text |-> rs[k].text,
         line |-> rs[k].line]]

\* danmaku_ass.py:10-64  jsonl_to_ass: what it returns and the Dialogue
\* lines of the file it writes
jsonl_to_ass(log, st) ==
    IF \E i \in 1..Len(log) : Raises(log[i])
    THEN [result |-> "raised", entries |-> <<>>]
    ELSE LET records == ReadRecords(log, 1)
         IN  IF records = <<>>
             THEN [result |-> "false", entries |-> <<>>]
             ELSE [result |-> "true",
                   entries |-> Dialogues(SortRecords(records), st)]

AssInit ==
    /\ fs = EmptyFs
    /\ reason = NoReasons
    /\ now = 0
    /\ lastOp = "none"
    /\ lastArg = 0
    /\ pre = EmptyFs
    /\ manual_runs = 0
    /\ RunnerConstructed(DefaultRoomConfig)
    /\ ProcessorConstructed /\ NoRecordings
    /\ RecorderConstructed
    /\ RunnersConstructed
    /\ UnitsIdle
    /\ jsonl \in ChatLogs
    /\ style \in StyleChoices
    /\ ass_result = "pending"
    /\ ass_entries = <<>>

\* processor.py:270  jsonl_to_ass(jsonl_path, ass_path, start, danmu_ass)
Convert ==
    /\ ass_result = "pending"
    /\ LET out == jsonl_to_ass(jsonl, style)
       IN  /\ ass_result' = out.result
           /\ ass_entries' = out.entries
    /\ UNCHANGED <<jsonl, style>>
    /\ UNCHANGED fsVars
    /\ UNCHANGED sweepVars
    /\ UNCHANGED supVars
    /\ UNCHANGED envVars
    /\ UNCHANGED procVars
    /\ UNCHANGED recVars
    /\ UNCHANGED chatVars
    /\ UNCHANGED unitVars

AssNext == Convert

AssSpec == AssInit /\ [][AssNext]_vars

(***************************************************************************)
(* Properties of jsonl_to_ass (AssSpec)                                    *)
(***************************************************************************)
\* a chat record with a text and a numeric timestamp
IsValidRecord(l) ==
    /\ l.kind = "object"
    /\ l.type = "danmaku"
    /\ l.text \notin {"", " "}
    /\ l.time_kind = "number"

ValidLines == {i \in 1..Len(jsonl) : IsValidRecord(jsonl[i])}

\* C17: for every chat log jsonl_to_ass returns true and writes the file if
\* and only if the log has a valid chat record, and otherwise returns false;
\* the start offsets of the file are >= 0 and non-decreasing
C17_FileIffValidRecord ==
    ass_result # "pending" =>
        /\ ass_result = "true" <=> ValidLines # {}
        /\ ValidLines = {} => ass_result = "false"
        /\ \A k \in 1..Len(ass_entries) : ass_entries[k].start >= 0
        /\ \A k \in 1..(Len(ass_entries) - 1) :
              ass_entries[k].start <= ass_entries[k + 1].start

\* C18: the file jsonl_to_ass writes has exactly one entry per valid chat
\* record, in ascending order of offset, records of equal offset in log
\* order; the entry at position i is on row i mod row_count and ends
\* duration after its start
C18_OneEntryPerValidRecord ==
    ass_result = "true" =>
        /\ Len(ass_entries) = Cardinality(ValidLines)
        /\ {ass_entries[k].line : k \in 1..Len(ass_entries)} = ValidLines
        /\ \A k \in 1..Len(ass_entries) :
              LET e == ass_entries[k]
                  l == jsonl[e.line]
              IN  /\ e.text = l.text
                  /\ e.start = IF l.time < session_ms THEN 0
                               ELSE (l.time - session_ms) \div 1000
                  /\ e.end = e.start + style.duration
                  /\ style.row_count >= 1 => e.row = (k - 1) % style.row_count
        /\ \A j, k \in 1..Len(ass_entries) :
              j < k =>
                 \/ ass_entries[j].start < ass_entries[k].start
                 \/ /\ ass_entries[j].start = ass_entries[k].start
                    /\ ass_entries[j].line < ass_entries[k].line

\* three valid records, the first two of one offset and the third before
\* the start of the session, two rows: three entries
C18_Witness ==
    /\ ass_result = "true"
    /\ style.row_count = 2
    /\ Len(jsonl) = 3
    /\ Len(ass_entries) = 3
    /\ ass_entries[1].line = 3
    /\ ass_entries[2].start = ass_entries[3].start
    /\ ass_entries[3].row = 0

(***************************************************************************)
(* recorder.py: LiveRecorder.record                                        *)
(***************************************************************************)
\* the session the recorder captures
rec_slug == SlugNames[1]

DownloadOutcomes ==
    {"ok", "empty", "http error", "network error", "timeout", "os error"}

\* recorder.py:84-86  a chunk arrived at or after stop_at: the loop over the
\* chunks is left, after some chunks were written or before the first one
CapOutcomes == {"cut", "cut empty"}

\* recorder.py:47, 84  end_at and time.time() >= end_at
CapElapsed(end_at, t) == end_at # NoCap /\ t >= end_at

\* what a download that begins at the clock reading at can end with: no
\* chunk is written once the cap has elapsed
DownloadOutcomesAt(end_at, at) ==
    IF end_at = NoCap THEN DownloadOutcomes
    ELSE IF CapElapsed(end_at, at)
         THEN (DownloadOutcomes \ {"ok"}) \cup {"cut empty"}
         ELSE DownloadOutcomes \cup CapOutcomes

\* the clock reading a pass has reached at the least when it ends: a
\* download cut by the cap ends at end_at or later
PassUntil(outcome, end_at, at) ==
    IF outcome \in CapOutcomes /\ end_at > at THEN end_at ELSE at

TransportErrors == {"http error", "network error", "timeout"}

\* paths.py:65-68  fragment_path(): the file name is the room id and the
\* timestamp formatted '%Y-%m-%d_%H-%M-%S', the time cut to whole seconds
fragment_name(ts) == ts \div TicksPerSecond

\* the clock readings at which the next pass of the capture loop can begin:
\* a pass takes time, and a pass without stream URLs sleeps retry_wait
\* seconds (recorder.py:51-55)
PassStarts(log) ==
    IF log = <<>> THEN {0}
    ELSE LET last == log[Len(log)]
         IN  IF last.outcome = "no urls"
             THEN {last.at + MinRetryWait * TicksPerSecond}
             ELSE {last.until + d : d \in 1..TicksPerSecond}

\* a network exception is raised like a write failure
_download_raises_on_network(outcome) ==
    CASE outcome = "ok" -> "True"
      [] outcome \in {"os error", "network error"} -> "OSError"
      [] OTHER -> "False"

\* recorder.py:72-102  _download: written > 0 or stopped_for_duration, which
\* is True for a fragment with data and for one cut by the cap, False for
\* an empty one and after an HTTPError or a RequestException (the timeouts
\* are RequestExceptions), and OSError raised again
_download(outcome) ==
    CASE outcome \in {"ok"} \cup CapOutcomes -> "True"
      [] outcome = "os error" -> "OSError"
      [] OTHER -> "False"

\* the fragments survive the write failure
fragments_kept(fragments) == fragments

\* recorder.py:61-64  fragments.clear() in the OSError handler
fragments_clear(fragments) == <<>>

\* a result is built even from an empty list of fragments
RecordReturnAlways(fragments) == "RecordingResult"

\* recorder.py:66-70  what record() returns
RecordReturn(fragments) == IF fragments = <<>> THEN "None" ELSE "RecordingResult"

\* recorder.py:54, 65  self.room.refresh(): the snapshot a refresh leaves;
\* the room is offline at the latest after MaxIterations passes
LiveAfterRefresh(passes) == IF passes >= MaxIterations THEN {FALSE} ELSE BOOLEAN

OutsideRecorder ==
    /\ UNCHANGED <<reason, now>>
    /\ UNCHANGED sweepVars
    /\ UNCHANGED supVars
    /\ UNCHANGED envVars
    /\ UNCHANGED procVars
    /\ UNCHANGED assVars
    /\ UNCHANGED chatVars
    /\ UNCHANGED unitVars

\* runner.py:67-109  record() is called on a room the runner found live
RecInit ==
    /\ fs = EmptyFs
    /\ reason = NoReasons
    /\ now = 0
    /\ lastOp = "none"
    /\ lastArg = 0
    /\ pre = EmptyFs
    /\ manual_runs = 0
    /\ RunnerConstructed(DefaultRoomConfig)
    /\ ProcessorConstructed /\ NoRecordings
    /\ NoChatLog
    /\ RunnersConstructed
    /\ UnitsIdle
    /\ rec_pc = "idle"
    /\ room_live = TRUE
    /\ rec_fragments = <<>>
    /\ rec_started = 0
    /\ rec_fetches = 0
    /\ rec_log = <<>>
    /\ rec_result = "pending"
    /\ rec_end_at = NoCap

\* recorder.py:38-45  record(max_duration): the session directories, and
\* end_at when max_duration is given and positive
RecordStartWith(max_duration) ==
    /\ rec_pc = "idle"
    /\ fs' = ensure_session_dirs(fs, rec_slug, now)
    /\ rec_end_at' = IF max_duration > 0
                     THEN max_duration * TicksPerSecond
                     ELSE NoCap
    /\ rec_pc' = "loop"
    /\ UNCHANGED <<room_live, rec_fragments, rec_started, rec_fetches, rec_log,
                   rec_result>>
    /\ OutsideRecorder

\* runner.py:109  record() without max_duration, as the runner calls it
RecordStart == RecordStartWith(0)

\* recorder.py:46-49, 66-70  while self.room.is_live, and the loop is left
\* when the cap has elapsed; after the loop the result
RecordLoop ==
    /\ rec_pc = "loop"
    /\ \E t \in PassStarts(rec_log) :
          IF room_live /\ ~CapElapsed(rec_end_at, t)
          THEN /\ rec_pc' = "fetch"
               /\ UNCHANGED rec_result
          ELSE /\ rec_pc' = "returned"
               /\ rec_result' = RecordReturn(rec_fragments)
    /\ UNCHANGED <<fs, room_live, rec_fragments, rec_started, rec_fetches,
                   rec_log, rec_end_at>>
    /\ OutsideRecorder

\* recorder.py:50-55  fetch_stream_urls(); without a URL wait, refresh and
\* start the loop again
RecordFetch ==
    /\ rec_pc = "fetch"
    /\ rec_fetches' = rec_fetches + 1
    /\ \E urls \in BOOLEAN :
          IF urls
          THEN /\ rec_pc' = "download"
               /\ UNCHANGED <<room_live, rec_log>>
          ELSE /\ rec_pc' = "loop"
               /\ \E at \in PassStarts(rec_log) :
                     rec_log' = Append(rec_log,
                        [outcome |-> "no urls", refreshed |-> TRUE,
                         fetches |-> rec_fetches', started |-> rec_started,
                         at |-> at, until |-> at,
                         path |-> fragment_name(at)])
               /\ room_live' \in LiveAfterRefresh(Len(rec_log'))
    /\ UNCHANGED <<fs, rec_fragments, rec_started, rec_result, rec_end_at>>
    /\ OutsideRecorder

\* recorder.py:56-65  _download into a new fragment path, then refresh; an
\* OSError clears the fragments and leaves the loop, and record() returns
RecordDownload ==
    /\ rec_pc = "download"
    /\ rec_started' = rec_started + 1
    /\ \E at \in PassStarts(rec_log) :
       \E outcome \in DownloadOutcomesAt(rec_end_at, at) :
          /\ fs' = IF outcome = "http error" THEN fs
                   ELSE WriteFile(fs, fragment_path(rec_slug), now)
          /\ LET res == _download(outcome)
                 pass == [outcome |-> outcome, refreshed |-> res # "OSError",
                          fetches |-> rec_fetches, started |-> rec_started',
                          at |-> at,
                          until |-> PassUntil(outcome, rec_end_at, at),
                          path |-> fragment_name(at)]
             IN  IF res = "OSError"
                 THEN /\ rec_fragments' = fragments_clear(rec_fragments)
                      /\ rec_log' = Append(rec_log, pass)
                      /\ rec_pc' = "returned"
                      /\ rec_result' = RecordReturn(rec_fragments')
                      /\ UNCHANGED room_live
                 ELSE /\ rec_fragments' =
                            IF res = "True"
                            THEN Append(rec_fragments, rec_started')
                            ELSE rec_fragments
                      /\ rec_log' = Append(rec_log, pass)
                      /\ room_live' \in LiveAfterRefresh(Len(rec_log'))
                      /\ rec_pc' = "loop"
                      /\ UNCHANGED rec_result
    /\ UNCHANGED <<rec_fetches, rec_end_at>>
    /\ OutsideRecorder

RecNext ==
    \/ RecordStart
    \/ RecordLoop
    \/ RecordFetch
    \/ RecordDownload

RecSpec == RecInit /\ [][RecNext]_vars

\* record(max_duration) with a duration cap
RecordStartCapped == \E max_duration \in 1..MaxDuration : RecordStartWith(max_duration)

CapNext ==
    \/ RecordStartCapped
    \/ RecordLoop
    \/ RecordFetch
    \/ RecordDownload

CapSpec == RecInit /\ [][CapNext]_vars

(***************************************************************************)
(* Properties of LiveRecorder.record (RecSpec)                             *)
(***************************************************************************)
\* C19: a failed write of a fragment ends the capture at once: it is the
\* last pass of the loop, no URL is fetched and no fragment started after
\* it, the fragments collected so far are dropped and record() returns None
C19_WriteFailureAbortsCapture ==
    \A i \in 1..Len(rec_log) :
        rec_log[i].outcome = "os error" =>
            /\ i = Len(rec_log)
            /\ rec_pc = "returned"
            /\ rec_result = "None"
            /\ rec_fragments = <<>>
            /\ rec_fetches = rec_log[i].fetches
            /\ rec_started = rec_log[i].started

\* two fragments were completed, the write of the third failed
C19_Witness ==
    /\ Len(rec_log) = 3
    /\ rec_log[1].outcome = "ok"
    /\ rec_log[2].outcome = "ok"
    /\ rec_log[3].outcome = "os error"
    /\ rec_result = "None"

LastPass(log) == log[Len(log)]

\* C20: a pass of the loop that ends with an HTTP error, a network exception
\* or a timeout adds no fragment, drops none, refreshes the room and leaves
\* record() running at the head of the loop, which goes on to the next
\* fetch while the room is live
C20_TransportErrorContinues ==
    [][/\ (/\ rec_pc = "download"
           /\ Len(rec_log') = Len(rec_log) + 1
           /\ LastPass(rec_log').outcome \in TransportErrors) =>
              /\ rec_fragments' = rec_fragments
              /\ LastPass(rec_log').refreshed
              /\ rec_pc' = "loop"
              /\ rec_result' = "pending"
       /\ (rec_pc = "loop" /\ room_live /\ rec_pc' # rec_pc) =>
              /\ rec_pc' = "fetch"
              /\ rec_fragments' = rec_fragments
              /\ rec_result' = "pending"]_vars

\* a timeout between two completed fragments: both are in the result
C20_Witness ==
    /\ Len(rec_log) = 3
    /\ rec_log[1].outcome = "ok"
    /\ rec_log[2].outcome = "timeout"
    /\ rec_log[3].outcome = "ok"
    /\ rec_result = "RecordingResult"
    /\ Len(rec_fragments) = 2


\* the passes of the loop that completed a fragment, in the order they ran
CompletedPasses(log) == SelectSeq(log, LAMBDA e : e.outcome = "ok")

FatalWriteError(log) == \E i \in 1..Len(log) : log[i].outcome = "os error"

\* C21: when record() has returned, the result is a RecordingResult exactly
\* if a fragment was completed and no write failed, and None otherwise; a
\* RecordingResult lists the completed fragments in the order of capture,
\* never an empty list, and the fragment file is on disk; without a write
\* failure record() returns only after a refresh found the room offline
C21_ResultIffFragmentCompleted ==
    rec_pc = "returned" =>
        /\ rec_result \in {"RecordingResult", "None"}
        /\ rec_result = "RecordingResult" <=>
              (CompletedPasses(rec_log) # <<>> /\ ~FatalWriteError(rec_log))
        /\ rec_result = "RecordingResult" =>
              /\ rec_fragments # <<>>
              /\ rec_fragments =
                    [i \in 1..Len(CompletedPasses(rec_log)) |->
                        CompletedPasses(rec_log)[i].started]
              /\ Exists(fs, fragment_path(rec_slug))
        /\ rec_result = "None" =>
              (rec_fragments = <<>> \/ FatalWriteError(rec_log))
        /\ ~FatalWriteError(rec_log) =>
              /\ ~room_live
              /\ rec_log # <<>>
              /\ LastPass(rec_log).refreshed

\* record() returned a result with the first and the third fragment; the
\* second one was empty
C21_Witness ==
    /\ rec_pc = "returned"
    /\ rec_result = "RecordingResult"
    /\ Len(rec_log) = 3
    /\ rec_log[2].outcome = "empty"
    /\ rec_fragments = <<1, 3>>

\* record() returned None from a room where no fragment was completed
C21_WitnessNone ==
    /\ rec_pc = "returned"
    /\ rec_result = "None"
    /\ ~FatalWriteError(rec_log)
    /\ Len(rec_log) = 2


(***************************************************************************)
(* Properties of a session of the supervisor (Spec)                        *)
(***************************************************************************)
\* the step of RoomRunner.run from the live test to recorder.record()
StartsSession == pc = "check_live" /\ pc' # pc /\ RoomIsLive

\* the chat capture was wanted and is not there
DanmuStartFailed == cfg.enable_danmu /\ danmu = "none"

\* C23: whether the chat capture started or failed to start, a session of a
\* live room goes to RECORDING and to recorder.record(), after a failure
\* with no chat task, and record() then has no chat task to stop; with the
\* chat capture disabled there is never a chat task and the chat log is not
\* opened
C23_CaptureRunsWithoutChatTask ==
    [][/\ StartsSession =>
              /\ pc' = "record"
              /\ state' = "RECORDING"
              /\ danmu' \in {"running", "none"}
              /\ danmu' = "running" => Exists(fs', danmu_json_path(slug'))
       /\ (pc = "record" /\ pc' # pc /\ danmu = "none") => danmu' = "none"
       /\ ~cfg.enable_danmu =>
              /\ danmu' = "none"
              /\ \A s \in Slugs : ~Exists(fs', danmu_json_path(s))]_vars

\* the chat capture failed to start and the stream capture of that session
\* returned a result
C23_Witness ==
    /\ DanmuStartFailed
    /\ state = "RECORDING"
    /\ pc = "procinit"
    /\ Exists(fs, fragment_path(slug))


\* recorder.record() returned to the supervisor without a RecordingResult:
\* the session has no completed fragment
RecordReturnsNothing ==
    /\ pc = "record"
    /\ pc' \notin {"record", "crashed"}
    /\ ~Exists(fs', fragment_path(slug))

NothingDeleted == \A p \in Paths : Exists(fs, p) => Exists(fs', p)

MarkersUntouched ==
    /\ \A d \in DirPaths :
          has_upload_failed_marker(fs', d) = has_upload_failed_marker(fs, d)
    /\ reason' = reason

PipelineSucceeds ==
    /\ pc = "process"
    /\ pc' \notin {"process", "crashed"}
    /\ Exists(fs', merged_file(slug))

\* C29: with upload_record false a successful processor.run() takes the
\* supervisor from PROCESSING to IDLE and to the head of its loop; the room
\* never reaches split or an upload attempt, is never UPLOADING, no split
\* part exists, a merged artifact stays on disk, and no step of the
\* supervisor writes or removes a failure marker
C29_NoUploadBackToIdle ==
    [][~cfg.upload_record =>
          /\ PipelineSucceeds =>
                 /\ state = "PROCESSING"
                 /\ state' = "IDLE"
                 /\ pc' = "loop"
                 /\ ~processor_open'
          /\ state' # "UPLOADING"
          /\ pc' \notin {"split", "upload1", "retry_sleep", "upload2"}
          /\ uploads' = <<>>
          /\ \A s \in Slugs :
                 /\ ~Exists(fs', split_part(s))
                 /\ Exists(fs, merged_file(s)) => Exists(fs', merged_file(s))
          /\ RunnerStep => MarkersUntouched]_vars

\* two sessions of a room that does not upload were processed
C29_Witness ==
    /\ ~cfg.upload_record
    /\ state = "IDLE"
    /\ pc = "loop"
    /\ session = 2
    /\ Exists(fs, merged_file(SlugNames[1]))
    /\ Exists(fs, merged_file(SlugNames[2]))


\* C30: once its stop signal is set a supervisor begins no further blocking
\* stage: when the stream capture returns it goes to the head of its loop
\* and not on to the pipeline, and the wait before the second upload
\* attempt ends before the full retry delay has passed
C30_NoStageAfterStop ==
    [][stop_event =>
          /\ (pc = "record" /\ RunnerStep) => pc' \in {"loop", "crashed"}
          /\ (pc = "retry_sleep" /\ RunnerStep) => now' - now < retry_delay]_vars


(***************************************************************************)
(* utils.py: the failure marker functions called on their own              *)
(* (MarkerSpec)                                                            *)
(***************************************************************************)
\* runner.py:243, cli.py:548  the reasons the callers pass
MarkReasons == {"upload_failed_after_retry", "manual_upload_failed"}

MarkerInit == SweepInit

OutsideMarker ==
    /\ UNCHANGED now
    /\ UNCHANGED supVars
    /\ UNCHANGED envVars
    /\ UNCHANGED compVars

\* utils.py:34-39  mark_upload_failed(d, r), on any directory, marked or not
MarkUploadFailed(d, r) ==
    /\ fs' = mark_upload_failed_fs(fs, d, now)
    /\ reason' = mark_upload_failed_text(reason, d, r)
    /\ pre' = fs
    /\ lastOp' = "mark"
    /\ lastArg' = [dir |-> d, reason |-> r, old |-> reason[MarkerPath(d)]]
    /\ OutsideMarker

\* utils.py:42-45  clear_upload_failed(d), on any directory, marked or not
ClearUploadFailed(d) ==
    /\ fs' = clear_upload_failed_fs(fs, d, now)
    /\ reason' = clear_upload_failed_text(fs, reason, d)
    /\ pre' = fs
    /\ lastOp' = "clear"
    /\ lastArg' = [dir |-> d, reason |-> "", old |-> reason[MarkerPath(d)]]
    /\ OutsideMarker

MarkerNext ==
    \/ \E s \in Slugs : SwEnsureSessionDirs(s)
    \/ \E d \in MarkableDirs : \E r \in MarkReasons : MarkUploadFailed(d, r)
    \/ \E d \in MarkableDirs : ClearUploadFailed(d)

MarkerSpec == MarkerInit /\ [][MarkerNext]_vars

(***************************************************************************)
(* Properties of the failure marker (MarkerSpec)                           *)
(***************************************************************************)
\* the entries of directory d in file system f that are named as the marker
MarkersIn(f, d) ==
    {p \in Children(d) : Name(p) = UPLOAD_FAILED_MARK /\ Exists(f, p)}

OtherFilesAsBefore(d) ==
    \A p \in FilePaths \ {MarkerPath(d)} : fs[p] = pre[p]

\* C26: has_upload_failed_marker is false on every directory that holds no
\* marker, existing or not; after mark_upload_failed(d, r) it is true for d,
\* the marker holds r whatever it held before and is the only marker in d;
\* after clear_upload_failed(d) it is false for d, and on an unmarked d the
\* call changes nothing; neither call touches another file
C26_MarkerRoundTrip ==
    /\ \A d \in MarkableDirs :
          /\ MarkersIn(fs, d) = {} => ~has_upload_failed_marker(fs, d)
          /\ ~Exists(fs, d) => ~has_upload_failed_marker(fs, d)
    /\ lastOp = "mark" =>
          /\ has_upload_failed_marker(fs, lastArg.dir)
          /\ reason[MarkerPath(lastArg.dir)] = lastArg.reason
          /\ MarkersIn(fs, lastArg.dir) = {MarkerPath(lastArg.dir)}
          /\ OtherFilesAsBefore(lastArg.dir)
    /\ lastOp = "clear" =>
          /\ ~has_upload_failed_marker(fs, lastArg.dir)
          /\ reason[MarkerPath(lastArg.dir)] = ""
          /\ ~has_upload_failed_marker(pre, lastArg.dir) => fs = pre
          /\ OtherFilesAsBefore(lastArg.dir)

\* a directory marked by the supervisor was marked again by a manual upload:
\* one marker, with the later reason
C26_Witness ==
    /\ lastOp = "mark"
    /\ has_upload_failed_marker(pre, lastArg.dir)
    /\ lastArg.old = "upload_failed_after_retry"
    /\ reason[MarkerPath(lastArg.dir)] = "manual_upload_failed"

\* clear_upload_failed was called on an existing directory without marker
C26_WitnessClearUnmarked ==
    /\ lastOp = "clear"
    /\ Exists(pre, lastArg.dir)
    /\ ~has_upload_failed_marker(pre, lastArg.dir)
    /\ fs = pre

(***************************************************************************)
(* runner.py, danmurecorder.py: the RoomRunner threads of two rooms with   *)
(* chat capture enabled, their DanmuRecorder threads and the lock the      *)
(* chat tasks share.  The pipeline and the upload of a session are one     *)
(* step of the runner here; Spec follows them stage by stage.              *)
(***************************************************************************)
CurrentTask(r) == <<r, runner_session[r]>>

Alive(t) == danmu_pc[t] \notin {"unborn", "terminated"}

\* the chat task is in a call that can outlast the 5 seconds of
\* join(timeout=5): the wait for a lock that is held and get_ws_info have
\* no timeout, create_connection has one of 10 seconds
InCallOutlastingJoin(t) ==
    \/ danmu_pc[t] \in {"ws_info", "connect"}
    \/ danmu_pc[t] = "lock" /\ header_lock # NoTask

OutsideChat ==
    /\ UNCHANGED <<fs, reason, now>>
    /\ UNCHANGED sweepVars
    /\ UNCHANGED supVars
    /\ UNCHANGED envVars
    /\ UNCHANGED procVars
    /\ UNCHANGED assVars
    /\ UNCHANGED recVars
    /\ UNCHANGED unitVars

ChatInit ==
    /\ fs = EmptyFs
    /\ reason = NoReasons
    /\ now = 0
    /\ lastOp = "none"
    /\ lastArg = 0
    /\ pre = EmptyFs
    /\ manual_runs = 0
    /\ RunnerConstructed(DefaultRoomConfig)
    /\ ProcessorConstructed /\ NoRecordings
    /\ NoChatLog
    /\ RecorderConstructed
    /\ RunnersConstructed
    /\ UnitsIdle

\* runner.py:53-108  the loop test, refresh, and for a live room the start
\* of the session's DanmuRecorder before recorder.record()
RunnerCycle(r) ==
    /\ runner_pc[r] = "loop"
    /\ IF runner_stop[r]
       THEN /\ runner_pc' = [runner_pc EXCEPT ![r] = "done"]
            /\ UNCHANGED <<room_is_live, runner_session, danmu_pc>>
       ELSE \E live \in BOOLEAN :
               /\ live => runner_session[r] < MaxSessions
               /\ room_is_live' = [room_is_live EXCEPT ![r] = live]
               /\ IF live
                  THEN /\ runner_session' =
                             [runner_session EXCEPT ![r] = @ + 1]
                       /\ danmu_pc' =
                             [danmu_pc EXCEPT ![<<r, runner_session[r] + 1>>] = "loop"]
                       /\ runner_pc' = [runner_pc EXCEPT ![r] = "record"]
                  ELSE UNCHANGED <<runner_session, danmu_pc, runner_pc>>
    /\ UNCHANGED <<controller_stopped, runner_stop, danmu_stop, header_lock>>
    /\ OutsideChat

\* the stream of a room that is being recorded ends
StreamEnds(r) ==
    /\ runner_pc[r] = "record"
    /\ room_is_live[r]
    /\ room_is_live' = [room_is_live EXCEPT ![r] = FALSE]
    /\ UNCHANGED <<controller_stopped, runner_pc, runner_stop, runner_session,
                   danmu_pc, danmu_stop, header_lock>>
    /\ OutsideChat

\* recorder.py:46, 65-70 and runner.py:109-111  record() leaves its loop
\* when a refresh finds the room offline; the runner then calls
\* danmu_recorder.stop()
RecordReturns(r) ==
    /\ runner_pc[r] = "record"
    /\ ~room_is_live[r]
    /\ danmu_stop' = [danmu_stop EXCEPT ![CurrentTask(r)] = TRUE]
    /\ runner_pc' = [runner_pc EXCEPT ![r] = "join"]
    /\ UNCHANGED <<controller_stopped, runner_stop, room_is_live,
                   runner_session, danmu_pc, header_lock>>
    /\ OutsideChat

\* runner.py:112-127  danmu_recorder.join(timeout=5) returns when the chat
\* task has ended or when the 5 seconds are over; without a result the
\* runner continues its loop, with one it sets PROCESSING
JoinReturns(r) ==
    /\ runner_pc[r] = "join"
    /\ \/ danmu_pc[CurrentTask(r)] = "terminated"
       \/ InCallOutlastingJoin(CurrentTask(r))
    /\ \E result \in BOOLEAN :
          runner_pc' = [runner_pc EXCEPT ![r] = IF result THEN "process" ELSE "loop"]
    /\ UNCHANGED <<controller_stopped, runner_stop, room_is_live,
                   runner_session, danmu_pc, danmu_stop, header_lock>>
    /\ OutsideChat

\* runner.py:128-170  the pipeline, the split and the upload of the session
ProcessSession(r) ==
    /\ runner_pc[r] = "process"
    /\ runner_pc' = [runner_pc EXCEPT ![r] = "loop"]
    /\ UNCHANGED <<controller_stopped, runner_stop, room_is_live,
                   runner_session, danmu_pc, danmu_stop, header_lock>>
    /\ OutsideChat

\* runner.py:289-294  RunnerController.stop(): runner.stop() for every
\* runner, runner.py:39-40
ControllerStop ==
    /\ ~controller_stopped
    /\ controller_stopped' = TRUE
    /\ runner_stop' = [r \in Rooms |-> TRUE]
    /\ UNCHANGED <<runner_pc, room_is_live, runner_session, danmu_pc,
                   danmu_stop, header_lock>>
    /\ OutsideChat

\* danmurecorder.py:111-118, 146-147  the loop test of run(), then
\* refresh_wbi_key; after a failure wait(5) and the loop test again
DanmuLoop(t) ==
    /\ danmu_pc[t] = "loop"
    /\ IF danmu_stop[t]
       THEN danmu_pc' = [danmu_pc EXCEPT ![t] = "terminated"]
       ELSE \E key_refreshed \in BOOLEAN :
               danmu_pc' = [danmu_pc EXCEPT ![t] =
                               IF key_refreshed THEN "lock" ELSE "loop"]
    /\ UNCHANGED <<controller_stopped, runner_pc, runner_stop, room_is_live,
                   runner_session, danmu_stop, header_lock>>
    /\ OutsideChat

\* danmurecorder.py:159, 278  with _BILIBILI_HEADER_LOCK
DanmuAcquire(t) ==
    /\ danmu_pc[t] = "lock"
    /\ header_lock = NoTask
    /\ header_lock' = t
    /\ danmu_pc' = [danmu_pc EXCEPT ![t] = "ws_info"]
    /\ UNCHANGED <<controller_stopped, runner_pc, runner_stop, room_is_live,
                   runner_session, danmu_stop>>
    /\ OutsideChat

\* danmurecorder.py:114-118, 160, 284-286  Bilibili.get_ws_info returns or
\* raises; either way the lock is released
DanmuWsInfo(t) ==
    /\ danmu_pc[t] = "ws_info"
    /\ header_lock' = NoTask
    /\ \E negotiated \in BOOLEAN :
          danmu_pc' = [danmu_pc EXCEPT ![t] =
                          IF negotiated THEN "connect" ELSE "loop"]
    /\ UNCHANGED <<controller_stopped, runner_pc, runner_stop, room_is_live,
                   runner_session, danmu_stop>>
    /\ OutsideChat

\* danmurecorder.py:122-132  websocket.create_connection
DanmuConnect(t) ==
    /\ danmu_pc[t] = "connect"
    /\ \E connected \in BOOLEAN :
          danmu_pc' = [danmu_pc EXCEPT ![t] =
                          IF connected THEN "send" ELSE "loop"]
    /\ UNCHANGED <<controller_stopped, runner_pc, runner_stop, room_is_live,
                   runner_session, danmu_stop, header_lock>>
    /\ OutsideChat

\* danmurecorder.py:135-147  the try at line 135 has a finally clause and no
\* except clause: after ws.close() and wait(1) the exception leaves the
\* while loop, the outer finally closes the chat log and run() ends
AfterRaise == "terminated"

\* danmurecorder.py:136-140  the handshake frames are sent
DanmuSend(t) ==
    /\ danmu_pc[t] = "send"
    /\ \E sent \in BOOLEAN :
          danmu_pc' = [danmu_pc EXCEPT ![t] =
                          IF sent THEN "consume" ELSE AfterRaise]
    /\ UNCHANGED <<controller_stopped, runner_pc, runner_stop, room_is_live,
                   runner_session, danmu_stop, header_lock>>
    /\ OutsideChat

\* what ends a pass of _consume_loop
ConsumeEvents == {"stop", "heartbeat failed", "recv failed", "handler raised"}

\* danmurecorder.py:165-221, 141-145  _consume_loop returns when the stop
\* event is set or a heartbeat or a recv fails, and run() closes the socket,
\* waits and tests its loop condition; an exception of _handle_payload
\* (msg.get or the emoji pattern on a decoded message that is not a dict
\* with a text) is caught nowhere
DanmuConsume(t) ==
    /\ danmu_pc[t] = "consume"
    /\ \E ev \in ConsumeEvents :
          /\ ev = "stop" <=> danmu_stop[t]
          /\ danmu_pc' = [danmu_pc EXCEPT ![t] =
                             IF ev = "handler raised" THEN AfterRaise ELSE "loop"]
    /\ UNCHANGED <<controller_stopped, runner_pc, runner_stop, room_is_live,
                   runner_session, danmu_stop, header_lock>>
    /\ OutsideChat

RunnerNext(r) ==
    \/ RunnerCycle(r)
    \/ RecordReturns(r)
    \/ JoinReturns(r)
    \/ ProcessSession(r)

DanmuNext(t) ==
    \/ DanmuLoop(t)
    \/ DanmuAcquire(t)
    \/ DanmuWsInfo(t)
    \/ DanmuConnect(t)
    \/ DanmuSend(t)
    \/ DanmuConsume(t)

ChatNext ==
    \/ \E r \in Rooms : RunnerNext(r)
    \/ \E r \in Rooms : StreamEnds(r)
    \/ \E t \in Tasks : DanmuNext(t)
    \/ ControllerStop

ChatSpec == ChatInit /\ [][ChatNext]_vars


\* every thread that can take a step takes one; nothing makes a stream end
\* or the controller stop
FairChatSpec ==
    /\ ChatSpec
    /\ \A r \in Rooms : WF_vars(RunnerNext(r))
    /\ \A t \in Tasks : WF_vars(DanmuNext(t))

(***************************************************************************)
(* Properties of the threads (ChatSpec, FairChatSpec)                      *)
(***************************************************************************)
\* C22: a chat task ends only after its stop event was set
C22_TaskEndsOnlyOnStop ==
    \A t \in Tasks : danmu_pc[t] = "terminated" => danmu_stop[t]

\* C24: after RunnerController.stop() a runner that is recording a live
\* room comes to its end, unless the room goes offline first
C24_StopEndsRecordingRunner ==
    \A r \in Rooms :
        (controller_stopped /\ runner_pc[r] = "record" /\ room_is_live[r])
            ~> (runner_pc[r] = "done" \/ ~room_is_live[r])

\* C25: while the chat task of one room is inside get_ws_info, a chat task
\* of another room that is about to negotiate its endpoint can go on
C25_OtherRoomsNegotiate ==
    \A t, u \in Tasks :
        (t[1] # u[1] /\ danmu_pc[t] = "ws_info" /\ danmu_pc[u] = "lock") =>
            ENABLED DanmuAcquire(u)

\* C27: while a runner is in the pipeline the chat task of that session has
\* ended, and a room never has two chat tasks alive
C27_ChatTaskEndedBeforeProcessing ==
    \A r \in Rooms :
        /\ runner_pc[r] = "process" => ~Alive(CurrentTask(r))
        /\ Cardinality({t \in Tasks : t[1] = r /\ Alive(t)}) <= 1


(***************************************************************************)
(* Properties of the upload stage (Spec)                                   *)
(***************************************************************************)
\* the supervisor polls the room: loop test, refresh, live test, the waits
PollingRoom ==
    pc \in {"loop", "refresh", "check_live", "sleep_refresh_failed",
            "sleep_not_live", "done"}

\* C31: from the first upload attempt of a session to the end of its last
\* one, the wait between the attempts included, the state is UPLOADING;
\* a supervisor in IDLE is polling its room
C31_UploadingUntilFinal ==
    /\ pc \in {"upload1", "retry_sleep", "upload2"} => state = "UPLOADING"
    /\ state = "IDLE" => PollingRoom

\* the parts of the session in progress that are on disk
PartsOnDisk(f) == {p \in Children(splits_dir(slug)) \cap DataFiles : Exists(f, p)}

\* an upload attempt of the supervisor ends in this step
AttemptEnds == Len(uploads') = Len(uploads) + 1

\* C32: an upload attempt that succeeds deletes the split parts of the
\* session exactly if keep_record_after_upload is false; one that fails
\* deletes none
C32_PartsDeletedIffNotKept ==
    [][AttemptEnds =>
          IF uploads'[Len(uploads')].ok
          THEN (PartsOnDisk(fs') = {}) <=> ~cfg.keep_record_after_upload
          ELSE PartsOnDisk(fs') = PartsOnDisk(fs)]_vars


(***************************************************************************)
(* runner.py: RoomRunner.set_state called on its own, at any time and with *)
(* any state (StateSpec)                                                   *)
(***************************************************************************)
StateInit == SweepInit

\* runner.py:42-47  set_state(s); the call and what it found are recorded
SetStateCall(s) ==
    /\ SetState(s)
    /\ lastOp' = "set_state"
    /\ lastArg' = [arg |-> s, old_state |-> state, old_since |-> state_since]
    /\ UNCHANGED <<pc, stop_event, is_live, session, cfg, danmu, uploads,
                   upload_result, processor_open>>
    /\ UNCHANGED pre
    /\ UNCHANGED fsVars
    /\ UNCHANGED envVars
    /\ UNCHANGED compVars

StateNext ==
    \/ \E s \in States : SetStateCall(s)
    \/ SwTick

StateSpec == StateInit /\ [][StateNext]_vars

\* C35: the state is one of the five RunnerState values, IDLE before the
\* first call; set_state with another state sets it and stamps state_since
\* with the time of the call, set_state with the current state changes
\* neither
C35_StateSinceIsEntryTime ==
    /\ state \in States
    /\ (now = 0 /\ lastOp = "none") => (state = "IDLE" /\ state_since = 0)
    /\ lastOp = "set_state" =>
          IF lastArg.arg = lastArg.old_state
          THEN state = lastArg.old_state /\ state_since = lastArg.old_since
          ELSE state = lastArg.arg /\ state_since = now

\* set_state was called with the state the supervisor has been in since an
\* earlier time
C35_Witness ==
    /\ lastOp = "set_state"
    /\ lastArg.arg = lastArg.old_state
    /\ state = "UPLOADING"
    /\ state_since < now
    /\ state_since > 0


(***************************************************************************)
(* Properties of the processor's cleanup (ProcSpec)                        *)
(***************************************************************************)
FragmentsDeleted == fragments_left # fragment_sizes

\* C39: raw fragments are deleted only by a run() whose last attempt ended
\* with a successful concat and only with keep_raw_record false; a run()
\* that returned None deleted none; and when they are deleted the merged
\* path holds the complete artifact, with or without subtitles
C39_FragmentsKeptUntilMerged ==
    /\ FragmentsDeleted =>
          /\ ~keep_raw_record
          /\ attempt_log # <<>>
          /\ attempt_log[Len(attempt_log)].concat = "ok"
    /\ run_result = "None" => ~FragmentsDeleted
    /\ FragmentsDeleted => merged \in {"concat", "subtitled"}

(***************************************************************************)
(* Properties of the fragment paths (RecSpec)                              *)
(***************************************************************************)
\* the passes that opened their fragment path for writing
OpenedFile(pass) == pass.outcome \notin {"no urls", "http error"}

\* the path of the fragment the pass numbered k wrote
PathOfFragment(k) ==
    LET i == CHOOSE i \in 1..Len(rec_log) :
                 rec_log[i].started = k /\ rec_log[i].outcome # "no urls"
    IN  rec_log[i].path

\* C33: a pass never opens the path of a fragment an earlier pass of the
\* session completed, and the fragment list names no path twice
C33_FragmentPathsDistinct ==
    /\ \A i, j \in 1..Len(rec_log) :
          (i < j /\ rec_log[i].outcome = "ok" /\ OpenedFile(rec_log[j])) =>
             rec_log[j].path # rec_log[i].path
    /\ \A a, b \in 1..Len(rec_fragments) :
          a # b => PathOfFragment(rec_fragments[a]) # PathOfFragment(rec_fragments[b])

(***************************************************************************)
(* Properties of a capture with a duration cap (CapSpec)                   *)
(***************************************************************************)
\* the pass that wrote the fragment numbered k
PassOfFragment(k) ==
    rec_log[CHOOSE i \in 1..Len(rec_log) :
               rec_log[i].started = k /\ rec_log[i].outcome # "no urls"]

\* C40: with a cap set, a download cut by the cap is the last pass and the
\* loop can only be left after it; a fragment cut after some data is listed;
\* record() returns a RecordingResult when fragments were captured and no
\* write failed; and every listed fragment holds data
C40_CapStopsWithNonEmptyFragments ==
    rec_end_at # NoCap =>
        /\ \A i \in 1..Len(rec_log) :
              rec_log[i].outcome \in CapOutcomes =>
                 /\ i = Len(rec_log)
                 /\ rec_pc \in {"loop", "returned"}
                 /\ ~ENABLED (RecordLoop /\ rec_pc' = "fetch")
        /\ \A i \in 1..Len(rec_log) :
              rec_log[i].outcome = "cut" =>
                 \E a \in 1..Len(rec_fragments) :
                    rec_fragments[a] = rec_log[i].started
        /\ rec_pc = "returned" =>
              (rec_result = "RecordingResult" <=> rec_fragments # <<>>)
        /\ \A a \in 1..Len(rec_fragments) :
              PassOfFragment(rec_fragments[a]).outcome \in {"ok", "cut"}

(***************************************************************************)
(* paths.py, runner.py: the slugs of the sessions of one room (SlugSpec)   *)
(***************************************************************************)
\* paths.py:8-9  _session_slug: the room id and the start formatted
\* '%Y-%m-%d_%H-%M-%S', the time cut to whole seconds; the room id is the
\* same for all sessions of the room
_session_slug(start) == start \div TicksPerSecond

\* the polling of a room that is not live ends at this clock reading
SlugHorizon == MaxSessions * check_interval * TicksPerSecond

OutsideSlug ==
    /\ UNCHANGED fsVars
    /\ UNCHANGED sweepVars
    /\ UNCHANGED supVars
    /\ UNCHANGED envVars
    /\ UNCHANGED <<procVars, assVars, recVars, chatVars>>
    /\ UNCHANGED <<filterVars, retryVars, uploadVars>>

SlugInit == SweepInit

\* runner.py:52-53  run() is entered
SlugRun ==
    /\ slug_pc = "idle"
    /\ slug_pc' = "refresh"
    /\ UNCHANGED <<slug_clock, session_log>>
    /\ OutsideSlug

\* runner.py:53-70  room.refresh(), which may answer within the same clock
\* reading; a room that is not live is polled again after check_interval
SlugRefresh ==
    /\ slug_pc = "refresh"
    /\ Len(session_log) < MaxSessions
    /\ \E d \in 0..TicksPerSecond, live \in BOOLEAN :
          IF live
          THEN /\ slug_clock' = slug_clock + d
               /\ slug_pc' = "start"
          ELSE /\ slug_clock < SlugHorizon
               /\ slug_clock' = slug_clock + d + check_interval * TicksPerSecond
               /\ slug_pc' = "refresh"
    /\ UNCHANGED session_log
    /\ OutsideSlug

\* runner.py:72-75  session_start = datetime.now() and RecordingPaths
SlugSessionStart ==
    /\ slug_pc = "start"
    /\ session_log' = Append(session_log,
          [start |-> slug_clock, slug |-> _session_slug(slug_clock),
           result |-> "pending"])
    /\ slug_pc' = "record"
    /\ UNCHANGED slug_clock
    /\ OutsideSlug

\* runner.py:109-118, 119-170  record() returns after some time: without a
\* result the state is ERROR and the loop continues at once, and with a
\* result the stages follow and the loop continues
SlugSessionEnd ==
    /\ slug_pc = "record"
    /\ \E d \in 1..TicksPerSecond, result \in {"None", "RecordingResult"} :
          /\ slug_clock' = slug_clock + d
          /\ session_log' = [session_log EXCEPT ![Len(session_log)].result = result]
    /\ slug_pc' = "refresh"
    /\ OutsideSlug

SlugNext ==
    \/ SlugRun
    \/ SlugRefresh
    \/ SlugSessionStart
    \/ SlugSessionEnd

SlugSpec == SlugInit /\ [][SlugNext]_vars

\* C34: two sessions of the room never have the same slug
C34_SlugsDistinct ==
    \A i, j \in 1..Len(session_log) :
        i # j => session_log[i].slug # session_log[j].slug

(***************************************************************************)
(* danmurecorder.py: DanmuRecorder._handle_payload (FilterSpec)            *)
(***************************************************************************)
\* a character is an emoji of the ranges of _EMOJI_PATTERN or another one
Chars == {"emoji", "letter"}

RECURSIVE TextsOfLen(_)
TextsOfLen(n) ==
    IF n = 0 THEN {<<>>}
    ELSE {Append(t, c) : t \in TextsOfLen(n - 1), c \in Chars}

Texts == UNION {TextsOfLen(n) : n \in 1..MaxTextLen}

\* what Bilibili.decode_msg hands over: chat messages and other ones
Messages ==
    [msg_type : {"danmaku"}, content : Texts]
       \cup {[msg_type |-> "other", content |-> <<"letter">>]}

Payloads == {<<m>> : m \in Messages} \cup {<<m, n>> : m, n \in Messages}

\* danmurecorder.py:21, 205  _EMOJI_PATTERN.search(text): one character of
\* the class anywhere in the text
EmojiPatternSearch(text) == \E i \in 1..Len(text) : text[i] = "emoji"

\* danmurecorder.py:201-206  the messages of a payload that are written
IsRecorded(msg) == msg.msg_type = "danmaku" /\ ~EmojiPatternSearch(msg.content)

RECURSIVE WriteRecords(_, _, _)
\* danmurecorder.py:201-224  the loop over the messages: _write_record
\* appends a line, and an exception of the write is logged and dropped
WriteRecords(lines, messages, write_ok) ==
    IF messages = <<>> THEN lines
    ELSE WriteRecords(
            IF IsRecorded(Head(messages)) /\ Head(write_ok)
            THEN Append(lines, Head(messages).content)
            ELSE lines,
            Tail(messages), Tail(write_ok))

OutsideFilter ==
    /\ UNCHANGED fsVars
    /\ UNCHANGED sweepVars
    /\ UNCHANGED supVars
    /\ UNCHANGED envVars
    /\ UNCHANGED <<procVars, assVars, recVars, chatVars>>
    /\ UNCHANGED <<slugVars, retryVars, uploadVars>>

FilterInit == SweepInit

\* danmurecorder.py:194-224  _handle_payload on a payload that decodes
HandlePayload(messages, write_ok) ==
    /\ Len(chat_seen) + Len(messages) <= MaxMessages
    /\ chat_seen' = chat_seen \o
          [i \in 1..Len(messages) |->
              [msg_type |-> messages[i].msg_type,
               content |-> messages[i].content,
               written |-> write_ok[i]]]
    /\ chat_lines' = WriteRecords(chat_lines, messages, write_ok)
    /\ OutsideFilter

FilterNext ==
    \E messages \in Payloads :
       \E write_ok \in [1..Len(messages) -> BOOLEAN] :
          HandlePayload(messages, write_ok)

FilterSpec == FilterInit /\ [][FilterNext]_vars

PurelyEmoji(text) == \A i \in 1..Len(text) : text[i] = "emoji"

\* the chat messages received that are not purely emoji, in arrival order
ExpectedLines ==
    LET kept == SelectSeq(chat_seen,
                   LAMBDA m : m.msg_type = "danmaku" /\ ~PurelyEmoji(m.content))
    IN  [i \in 1..Len(kept) |-> kept[i].content]

\* C36: the chat log holds one line for every chat message that is not
\* purely emoji, in arrival order, and none for a purely emoji one
C36_OnlyPureEmojiDiscarded == chat_lines = ExpectedLines

(***************************************************************************)
(* uploader.py: BiliUploader._upload_file_with_retry (RetrySpec)           *)
(***************************************************************************)
\* uploader.py:90  except (KeyError, ConnectionError, TimeoutError)
TransientErrors == {"KeyError", "ConnectionError", "TimeoutError"}

\* what a call of client.upload_file ends with: the part, one of the
\* errors that are retried, or another exception
UploadFileOutcomes == {"part"} \cup TransientErrors \cup {"ValueError"}

\* the wait does not grow with the attempt
wait_time_constant(k) == RetryWaitStep

\* uploader.py:93-96  wait_time = (attempt + 1) * 5, for attempt k
wait_time(k) == (k + 1) * RetryWaitStep

OutsideRetry ==
    /\ UNCHANGED fsVars
    /\ UNCHANGED sweepVars
    /\ UNCHANGED supVars
    /\ UNCHANGED envVars
    /\ UNCHANGED <<procVars, assVars, recVars, chatVars>>
    /\ UNCHANGED <<slugVars, filterVars, uploadVars>>

RetryInit == SweepInit

\* uploader.py:82-85  the call, last_error = None and the first attempt
UploadFileWithRetry(n) ==
    /\ up_pc = "idle"
    /\ max_retries' = n
    /\ up_attempt' = 0
    /\ last_error' = "None"
    /\ up_pc' = "call"
    /\ UNCHANGED <<up_calls, up_waits, up_result>>
    /\ OutsideRetry

\* uploader.py:85-108  one pass of the loop: the call of client.upload_file
\* returns the part; a transient error is kept in last_error and, before
\* the last attempt, followed by the sleep and the next pass; after the
\* last attempt the loop ends and last_error is raised; any other
\* exception leaves the function
UploadFileAttempt ==
    /\ up_pc = "call"
    /\ \E outcome \in UploadFileOutcomes :
          /\ up_calls' = Append(up_calls, outcome)
          /\ IF outcome = "part"
             THEN /\ up_pc' = "returned"
                  /\ up_result' = [part |-> Len(up_calls')]
                  /\ UNCHANGED <<up_attempt, last_error, up_waits>>
             ELSE IF outcome \in TransientErrors
             THEN /\ last_error' = outcome
                  /\ IF up_attempt < max_retries
                     THEN /\ up_waits' = Append(up_waits, wait_time(up_attempt))
                          /\ up_attempt' = up_attempt + 1
                          /\ up_pc' = "call"
                          /\ UNCHANGED up_result
                     ELSE /\ up_pc' = "raised"
                          /\ up_result' = [raised |-> last_error']
                          /\ UNCHANGED <<up_attempt, up_waits>>
             ELSE /\ up_pc' = "raised"
                  /\ up_result' = [raised |-> outcome]
                  /\ UNCHANGED <<up_attempt, last_error, up_waits>>
    /\ UNCHANGED max_retries
    /\ OutsideRetry

RetryNext ==
    \/ \E n \in 0..MaxRetries : UploadFileWithRetry(n)
    \/ UploadFileAttempt

RetrySpec == RetryInit /\ [][RetryNext]_vars

\* the calls before the last one all ended with a transient error
EarlierCallsTransient ==
    \A i \in 1..(Len(up_calls) - 1) : up_calls[i] \in TransientErrors

\* C37: at most max_retries + 1 calls of the client; only a transient
\* error is followed by another call, after a wait of (k + 1) * 5 seconds
\* for attempt k; the function returns the part of the first call that
\* succeeds, raises the last error when the last attempt failed, and
\* raises any other exception at once
C37_BoundedRetryWithGrowingWait ==
    /\ Len(up_calls) <= max_retries + 1
    /\ EarlierCallsTransient
    /\ Len(up_waits) = up_attempt
    /\ \A k \in 0..(Len(up_waits) - 1) :
          /\ k < max_retries
          /\ up_calls[k + 1] \in TransientErrors
          /\ up_waits[k + 1] = (k + 1) * 5
    /\ up_pc = "call" => Len(up_calls) = up_attempt
    /\ up_pc = "returned" =>
          /\ up_calls[Len(up_calls)] = "part"
          /\ up_result = [part |-> Len(up_calls)]
    /\ up_pc = "raised" =>
          /\ up_result = [raised |-> up_calls[Len(up_calls)]]
          /\ up_calls[Len(up_calls)] \in TransientErrors =>
                Len(up_calls) = max_retries + 1

\* three calls with max_retries = 2, all failing, the last with another
\* transient error than the first ones
C37_Witness ==
    /\ up_pc = "raised"
    /\ max_retries = 2
    /\ up_calls = <<"KeyError", "ConnectionError", "TimeoutError">>
    /\ up_waits = <<5, 10>>
    /\ up_result = [raised |-> "TimeoutError"]

\* the second call succeeds after one wait
C37_WitnessReturned ==
    /\ up_pc = "returned"
    /\ up_calls = <<"TimeoutError", "part">>
    /\ up_waits = <<5>>

\* another exception at the second call ends the function with retries left
C37_WitnessOther ==
    /\ up_pc = "raised"
    /\ max_retries = 2
    /\ up_calls = <<"KeyError", "ValueError">>

(***************************************************************************)
(* uploader.py: BiliUploader.upload_record (UploadSpec)                    *)
(***************************************************************************)
\* sizes on both sides of the threshold
PartSizes == {MinPartBytes - 1, MinPartBytes}

\* a split part: its path, as its rank in path order, and its size
Parts == [path : 1..MaxParts, size : PartSizes]

RECURSIVE SplitListsOfLen(_)
SplitListsOfLen(n) ==
    IF n = 0 THEN {<<>>}
    ELSE {Append(l, p) : l \in SplitListsOfLen(n - 1), p \in Parts}

\* the lists run() hands over: every path once, in any order
SplitLists ==
    {l \in UNION {SplitListsOfLen(n) : n \in 0..MaxParts} :
        \A i, j \in 1..Len(l) : i # j => l[i].path # l[j].path}

RECURSIVE InsertByPath(_, _)
InsertByPath(l, p) ==
    IF l = <<>> THEN <<p>>
    ELSE IF p.path < Head(l).path THEN <<p>> \o l
    ELSE <<Head(l)>> \o InsertByPath(Tail(l), p)

\* the parts are taken in the order they were handed over
sorted_as_given(l) == l

RECURSIVE sorted(_)
\* uploader.py:126  sorted(splits): ascending by path
sorted(l) ==
    IF l = <<>> THEN <<>>
    ELSE InsertByPath(sorted(SubSeq(l, 1, Len(l) - 1)), l[Len(l)])

\* uploader.py:127  split.stat().st_size < 1_048_576
IsSmallPart(p) == p.size < MinPartBytes

\* what client.submit() answers
SubmitResponses == [code : {0, -1}, data : {"none", "ids"}]

\* uploader.py:149-153  the ids when the answer has code 0 and data
SubmitResult(resp) ==
    IF resp.code = 0 /\ resp.data # "none" THEN "ids" ELSE "None"

\* runner.py:187-201  how _do_upload sees what upload_record did
UploadOutcomeOf(upload_ret) ==
    CASE upload_ret = "ids" -> "ok"
      [] upload_ret = "None" -> "none"
      [] upload_ret = "raised" -> "raised"

OutsideUpload ==
    /\ UNCHANGED fsVars
    /\ UNCHANGED sweepVars
    /\ UNCHANGED supVars
    /\ UNCHANGED envVars
    /\ UNCHANGED <<procVars, assVars, recVars, chatVars>>
    /\ UNCHANGED <<slugVars, filterVars, retryVars>>

UploadInit == SweepInit

\* uploader.py:110-126  upload_record(start, splits): None at once when
\* upload_record is off, else the video is prepared and the loop begins
UploadRecord(enabled, splits) ==
    /\ ur_pc = "idle"
    /\ ur_enabled' = enabled
    /\ ur_splits' = splits
    /\ IF enabled
       THEN /\ ur_todo' = sorted(splits)
            /\ ur_pc' = "loop"
            /\ UNCHANGED ur_result
       ELSE /\ ur_todo' = <<>>
            /\ ur_pc' = "returned"
            /\ ur_result' = "None"
    /\ UNCHANGED <<ur_uploaded, ur_calls>>
    /\ OutsideUpload

\* uploader.py:126-133  one pass of the loop: a small part is skipped, any
\* other is uploaded by _upload_file_with_retry, whose error leaves
\* upload_record
UploadPart ==
    /\ ur_pc = "loop"
    /\ ur_todo # <<>>
    /\ LET split == Head(ur_todo)
       IN  IF IsSmallPart(split)
           THEN /\ ur_todo' = Tail(ur_todo)
                /\ UNCHANGED <<ur_pc, ur_uploaded, ur_calls, ur_result>>
           ELSE /\ ur_calls' = Append(ur_calls, [call |-> "upload_file", path |-> split.path])
                /\ \E ok \in BOOLEAN :
                      IF ok
                      THEN /\ ur_todo' = Tail(ur_todo)
                           /\ ur_uploaded' = ur_uploaded + 1
                           /\ UNCHANGED <<ur_pc, ur_result>>
                      ELSE /\ ur_pc' = "returned"
                           /\ ur_result' = "raised"
                           /\ UNCHANGED <<ur_todo, ur_uploaded>>
    /\ UNCHANGED <<ur_enabled, ur_splits>>
    /\ OutsideUpload

\* uploader.py:134-153  after the loop: None without a submit when nothing
\* was uploaded, else submit() and the ids or None
UploadSubmit ==
    /\ ur_pc = "loop"
    /\ ur_todo = <<>>
    /\ IF ur_uploaded = 0
       THEN /\ ur_result' = "None"
            /\ UNCHANGED ur_calls
       ELSE \E resp \in SubmitResponses :
               /\ ur_calls' = Append(ur_calls,
                     [call |-> "submit", code |-> resp.code, data |-> resp.data])
               /\ ur_result' = SubmitResult(resp)
    /\ ur_pc' = "returned"
    /\ UNCHANGED <<ur_enabled, ur_splits, ur_todo, ur_uploaded>>
    /\ OutsideUpload

UploadNext ==
    \/ \E enabled \in BOOLEAN, splits \in SplitLists : UploadRecord(enabled, splits)
    \/ UploadPart
    \/ UploadSubmit

UploadSpec == UploadInit /\ [][UploadNext]_vars

\* the paths handed to the client, in the order of the calls
UploadedPaths ==
    LET calls == SelectSeq(ur_calls, LAMBDA c : c.call = "upload_file")
    IN  [i \in 1..Len(calls) |-> calls[i].path]

Submits == SelectSeq(ur_calls, LAMBDA c : c.call = "submit")

LargePaths == {ur_splits[i].path : i \in {j \in 1..Len(ur_splits) :
                                             ur_splits[j].size >= 1048576}}

\* C38: the client is handed only parts of at least 1,048,576 bytes, each
\* at most once and in ascending path order, and all of them unless an
\* upload raised; submit is called at most once and only after a part was
\* uploaded; without an uploaded part upload_record returns None and
\* _do_upload False; the ids are returned exactly when submit answered
\* with code 0 and data
C38_SortedLargePartsThenSubmit ==
    /\ \A i \in 1..Len(UploadedPaths) : UploadedPaths[i] \in LargePaths
    /\ \A i, j \in 1..Len(UploadedPaths) :
          i < j => UploadedPaths[i] < UploadedPaths[j]
    /\ \A i \in 1..Len(UploadedPaths) :
          \A q \in LargePaths : q < UploadedPaths[i] =>
             \E j \in 1..(i - 1) : UploadedPaths[j] = q
    /\ Len(Submits) <= 1
    /\ Submits # <<>> => ur_uploaded >= 1 /\ ur_pc = "returned"
    /\ ur_pc = "returned" =>
          /\ ur_result # "raised" /\ ur_enabled =>
                {UploadedPaths[i] : i \in 1..Len(UploadedPaths)} = LargePaths
          /\ (ur_uploaded = 0 /\ ur_result # "raised") =>
                /\ ur_result = "None"
                /\ ~_do_upload(UploadOutcomeOf(ur_result))
          /\ ur_result = "ids" <=>
                /\ Submits # <<>>
                /\ Submits[1].code = 0
                /\ Submits[1].data = "ids"

\* two large parts handed over in descending order, both uploaded in
\* ascending order, and the submit answered with the ids
C38_Witness ==
    /\ ur_pc = "returned"
    /\ Len(ur_splits) = 2
    /\ ur_splits[1].path > ur_splits[2].path
    /\ UploadedPaths = <<1, 2>>
    /\ ur_result = "ids"

\* only small parts: no call of the client at all
C38_WitnessNothingUploaded ==
    /\ ur_pc = "returned"
    /\ ur_enabled
    /\ Len(ur_splits) = 2
    /\ ur_calls = <<>>
    /\ ur_result = "None"

====
